---- MODULE Spec2Model ----
(***************************************************************************)
(* Model of the liturgical slide-deck exporter (messe-app).                *)
(*                                                                         *)
(* Strings are sequences of one-character strings, so that the regular     *)
(* expressions, trim(), startsWith(), includes() and toLowerCase() of the  *)
(* source are computed character by character.                             *)
(*                                                                         *)
(* The state machines of the module:                                       *)
(*   SpecProse   PowerPointService.splitTextIntoParagraphs on one text     *)
(*   SpecSong    splitSongIntoVerses + generateVerseTitle on one song      *)
(*   Spec        PowerPointService.exportPresentation on one presentation  *)
(*   SpecPrompt  PowerPointImageService.getOptimizedPrompts on one title   *)
(*   SpecAelf    AELFService.getReadingsForDate for one date                *)
(*   SpecPanel   one export started from PreviewPanel (handleExport,       *)
(*               handleExportWithImages, handleApiKeySubmit) or by a call  *)
(*               of PowerPointImageService.enhanceWithImages               *)
(*   SpecPanelLive  SpecPanel with the scheduled steps taken eventually    *)
(*   SpecClean   AELFService.cleanText applied once and once again         *)
(*   SpecPreview the slide list PreviewPanel renders for one presentation  *)
(*   SpecSession the buttons and the key form of PreviewPanel, several     *)
(*               exports one after or over another                         *)
(*   SpecSongsPanel  the form, the library and the song rows of SongsPanel *)
(***************************************************************************)
EXTENDS Integers, Sequences, FiniteSets, TLC

VARIABLES
    text,          \* prose: the argument of splitTextIntoParagraphs
    paragraphs,    \* prose: the array it returns
    prosePc,       \* prose: "ready" before the call, "done" after it
    song,          \* song: the Song whose lyric slides are made (title, lyrics)
    verses,        \* song: the array splitSongIntoVerses returns for song.lyrics
    verseTitles,   \* song: generateVerseTitle of verses[1..Len(verseTitles)]
    songPc,        \* song: "ready", "titles", "done"
    presentation,  \* export: the LiturgyPresentation being exported
    pptx,          \* export: the slides added to the PptxGenJS deck, in order
    slideNumber,   \* export: the local counter of exportPresentation
    sortedSlides,  \* export: the sorted copy of presentation.slideOrder
    cursor,        \* export: position of the for-of loop in sortedSlides
    files,         \* export: the files written by pptx.writeFile
    exportPc,      \* export: "ready", "loop", "write", "done", "rejected"
    slideTitle,    \* prompt: the first argument of getOptimizedPrompts
    slideType,     \* prompt: its second argument, "reading", "song" or "title"
    prompt,        \* prompt: the string it returns
    promptPc,      \* prompt: "ready" before the call, "done" after it
    startedBy,     \* panel: the function the run starts with
    apiKey,        \* panel: the apiKey state of PreviewPanel, or config.apiKey
    panelPc,       \* panel: the await at which the handler stands
    exporting,     \* panel: the exporting state of PreviewPanel
    exportingWithImages, \* panel: the exportingWithImages state
    showImageOptions,    \* panel: the showImageOptions state
    exportProgress,      \* panel: exportProgress.progress
    alerts,        \* panel: the messages shown with alert(), in order
    resetTimer,    \* panel: the setTimeout of line 89 is armed
    enhancePc,     \* enhance: the await at which enhanceWithImages stands
    slideIndex,    \* enhance: i of the loop of createEnhancedPresentation
    enhancedSlides,      \* enhance: the enhancedSlides array
    requests,      \* enhance: the fetch calls issued, in order
    lastOutcome,   \* enhance: what came of the latest fetch that settled
    pending,       \* enhance: the requests that have not settled
    progressLog,   \* enhance: the progress values passed to onProgress
    success,       \* enhance: what enhanceWithImages returned, "none" before
    exportCalls,   \* enhance: the calls of exportPresentation so far
    date,          \* aelf: the argument of getReadingsForDate
    aelfUrl,       \* aelf: the URL it fetches, "" before the call
    aelfResponse,  \* aelf: what came of the fetch
    aelfResult,    \* aelf: how the promise of getReadingsForDate settled
    aelfPc,        \* aelf: "ready", "awaitFetch", "done"
    cleanInput,    \* clean: the argument of cleanText
    cleanOutputs,  \* clean: what cleanText returned, then what it returned for that
    previewRows,   \* preview: the rows PreviewPanel lists, badge and title
    previewTotal,  \* preview: the number of slides PreviewPanel displays
    runs,          \* session: the handler runs of PreviewPanel and their awaits
    events,        \* session: the user events so far
    songsProp,     \* songs panel: the songs prop of SongsPanel
    showAddForm,   \* songs panel: the showAddForm state
    showLibrary,   \* songs panel: the showLibrary state
    editingId,     \* songs panel: the editingId state, "null" for null
    formData,      \* songs panel: the formData state
    lastEvent,     \* songs panel: the latest event, its handler and the callbacks it called
    nextId         \* songs panel: the songs the parent has created so far

proseVars == <<text, paragraphs, prosePc>>
songVars == <<song, verses, verseTitles, songPc>>
exportVars == <<presentation, pptx, slideNumber, sortedSlides, cursor, files, exportPc>>
promptVars == <<slideTitle, slideType, prompt, promptPc>>
handlerVars == <<startedBy, apiKey, panelPc, exporting, exportingWithImages, showImageOptions,
                 exportProgress, alerts, resetTimer>>
enhanceVars == <<enhancePc, slideIndex, enhancedSlides, requests, lastOutcome, pending,
                 progressLog, success, exportCalls>>
panelVars == <<handlerVars, enhanceVars>>
aelfVars == <<date, aelfUrl, aelfResponse, aelfResult, aelfPc>>
cleanVars == <<cleanInput, cleanOutputs>>
previewVars == <<previewRows, previewTotal>>
sessionVars == <<runs, events>>
songsPanelVars == <<songsProp, showAddForm, showLibrary, editingId, formData, lastEvent,
                    nextId>>
uiVars == <<cleanVars, previewVars, sessionVars, songsPanelVars>>
vars == <<text, paragraphs, prosePc, song, verses, verseTitles, songPc,
          presentation, pptx, slideNumber, sortedSlides, cursor, files, exportPc,
          slideTitle, slideType, prompt, promptPc,
          startedBy, apiKey, panelPc, exporting, exportingWithImages, showImageOptions,
          exportProgress, alerts, resetTimer,
          enhancePc, slideIndex, enhancedSlides, requests, lastOutcome, pending,
          progressLog, success, exportCalls,
          date, aelfUrl, aelfResponse, aelfResult, aelfPc,
          cleanInput, cleanOutputs, previewRows, previewTotal, runs, events,
          songsProp, showAddForm, showLibrary, editingId, formData, lastEvent, nextId>>

-----------------------------------------------------------------------------
(* Bounds of the explored inputs.                                          *)

\* longest prose text enumerated character by character
MaxTextLen == 4
\* most sentences in a generated long paragraph
MaxSentences == 3
\* lengths of the sentences of a generated long paragraph
SentenceLens == {100, 149, 150, 151, 301}
\* longest lyrics enumerated character by character
MaxLyricsLen == 4
\* most lines in a generated verse
MaxLines == 20
\* most entries in presentation.slideOrder
MaxOrder == 3
\* greatest order key of an entry
MaxKey == 2

(* Thresholds of the source.                                               *)
LongParagraphThreshold == 400
ChunkLimit == 300
MaxVerseLines == 8
VerseGroupLines == 6
BulletThreshold == 200

-----------------------------------------------------------------------------
(* Characters and strings.                                                 *)

Upper26 == <<"A","B","C","D","E","F","G","H","I","J","K","L","M",
             "N","O","P","Q","R","S","T","U","V","W","X","Y","Z">>
Lower26 == <<"a","b","c","d","e","f","g","h","i","j","k","l","m",
             "n","o","p","q","r","s","t","u","v","w","x","y","z">>
Digits10 == <<"0","1","2","3","4","5","6","7","8","9">>

Range(f) == {f[i] : i \in DOMAIN f}

\* least j in lo..hi with Hit(j), hi + 1 when there is none
Least(lo, hi, Hit(_)) ==
    CHOOSE j \in lo..(hi + 1) :
        /\ j = hi + 1 \/ Hit(j)
        /\ \A k \in lo..(j - 1) : ~Hit(k)

\* greatest j in lo..hi with Hit(j), lo - 1 when there is none
Greatest(lo, hi, Hit(_)) ==
    CHOOSE j \in (lo - 1)..hi :
        /\ j = lo - 1 \/ Hit(j)
        /\ \A k \in (j + 1)..hi : ~Hit(k)

\* \s of the regular expressions and of trim()
IsSpace(c) == c \in {" ", "\n", "\t", "\r"}
\* [A-Z]
IsUpper(c) == c \in Range(Upper26)
\* \d
IsDigit(c) == c \in Range(Digits10)
\* [.!?]
IsSentenceEnd(c) == c \in {".", "!", "?"}

\* first index >= i of s that is not white space, Len(s) + 1 when there is none
SpaceRunEnd(s, i) == Least(i, Len(s), LAMBDA j : ~IsSpace(s[j]))
\* first index >= i of s that is not a digit, Len(s) + 1 when there is none
DigitRunEnd(s, i) == Least(i, Len(s), LAMBDA j : ~IsDigit(s[j]))

\* String.prototype.trim
Trim(s) ==
    SubSeq(s, Least(1, Len(s), LAMBDA j : ~IsSpace(s[j])),
              Greatest(1, Len(s), LAMBDA j : ~IsSpace(s[j])))

\* String.prototype.startsWith
StartsWith(s, prefix) ==
    Len(prefix) <= Len(s) /\ SubSeq(s, 1, Len(prefix)) = prefix

\* String.prototype.includes
Includes(s, part) ==
    \E i \in 1..(Len(s) - Len(part) + 1) : SubSeq(s, i, i + Len(part) - 1) = part

\* the accented letters of the liturgical keywords and of the titles
UpperAccented == <<"É", "È", "Ë", "Â">>
LowerAccented == <<"é", "è", "ë", "â">>

\* String.prototype.toLowerCase, on the letters A-Z and the accented letters
ToLowerCase(s) ==
    [i \in 1..Len(s) |->
        IF IsUpper(s[i])
        THEN Lower26[CHOOSE k \in 1..26 : Upper26[k] = s[i]]
        ELSE IF s[i] \in Range(UpperAccented)
        THEN LowerAccented[CHOOSE k \in 1..4 : UpperAccented[k] = s[i]]
        ELSE s[i]]

\* Array.prototype.join for an array of strings
RECURSIVE Join(_, _)
Join(parts, sep) ==
    IF parts = <<>> THEN <<>>
    ELSE IF Len(parts) = 1 THEN parts[1]
    ELSE parts[1] \o sep \o Join(Tail(parts), sep)

-----------------------------------------------------------------------------
(* The regular expressions of the source.  MatchEnd(re, s, q) is the index *)
(* just after the match of re that starts at index q of s (q itself for an *)
(* empty match), or 0 when re does not match at q.  Alternatives are tried *)
(* in the order they are written; \s* and \s+ are greedy and backtrack.    *)

\* \n\s*\n : from the newline at q to the last newline of the white-space run
\* index after the last newline of s[q+1..stop-1], 0 when there is none
AfterLastNewline(q, last) == IF last = q THEN 0 ELSE last + 1
LastNewlineEnd(s, q, stop) ==
    AfterLastNewline(q, Greatest(q + 1, stop - 1, LAMBDA j : s[j] = "\n"))

BlankLineEnd(s, q) ==
    IF q <= Len(s) /\ s[q] = "\n" THEN LastNewlineEnd(s, q, SpaceRunEnd(s, q + 1)) ELSE 0

\* \.\s+(?=[A-Z]) : a period, its white-space run, then an upper-case letter
UpperAt(s, stop) == IF stop <= Len(s) /\ IsUpper(s[stop]) THEN stop ELSE 0

PeriodBeforeUpperEnd(s, q) ==
    IF q < Len(s) /\ s[q] = "." /\ IsSpace(s[q + 1])
    THEN UpperAt(s, SpaceRunEnd(s, q + 1))
    ELSE 0

\* (?<=[.!?])\s+ : a white-space run that follows a sentence end
AfterSentenceEnd(s, q) ==
    IF q > 1 /\ q <= Len(s) /\ IsSentenceEnd(s[q - 1]) /\ IsSpace(s[q])
    THEN SpaceRunEnd(s, q)
    ELSE 0

\* (?=R\/) : the empty match in front of "R/"
BeforeRefrainEnd(s, q) ==
    IF q < Len(s) /\ s[q] = "R" /\ s[q + 1] = "/" THEN q ELSE 0

\* (?<=\n)(?=\d+\.) : the empty match after a newline, in front of "<digits>."
PeriodAt(s, q, stop) == IF stop <= Len(s) /\ s[stop] = "." THEN q ELSE 0

BeforeVerseNumberEnd(s, q) ==
    IF q > 1 /\ q <= Len(s) /\ s[q - 1] = "\n" /\ IsDigit(s[q])
    THEN PeriodAt(s, q, DigitRunEnd(s, q))
    ELSE 0

\* the end given by the first alternative that matches, 0 when none does
FirstMatch(ends) ==
    IF \A i \in 1..Len(ends) : ends[i] = 0 THEN 0
    ELSE ends[Least(1, Len(ends), LAMBDA i : ends[i] # 0)]

\* '\n' as separator of String.prototype.split
NewlineEnd(s, q) == IF q <= Len(s) /\ s[q] = "\n" THEN q + 1 ELSE 0

MatchEnd(re, s, q) ==
    CASE re = "paragraph" -> FirstMatch(<<BlankLineEnd(s, q), PeriodBeforeUpperEnd(s, q)>>)
      [] re = "sentence" -> AfterSentenceEnd(s, q)
      [] re = "line" -> NewlineEnd(s, q)
      [] re = "verse" ->
            FirstMatch(<<BlankLineEnd(s, q), BeforeRefrainEnd(s, q), BeforeVerseNumberEnd(s, q)>>)

\* The scan of String.prototype.split(re): from the start p of the current
\* piece, the first index q where re matches with an end e other than p closes
\* the piece, and the next piece starts at e.  The result is the sequence of
\* the separators <<q, e>> found.
RECURSIVE SplitCuts(_, _, _)
CutsFrom(re, s, hit, end) ==
    IF hit > Len(s) THEN <<>> ELSE <<(<<hit, end>>)>> \o SplitCuts(re, s, end)

CutsAt(re, s, hit) ==
    CutsFrom(re, s, hit, IF hit > Len(s) THEN 0 ELSE MatchEnd(re, s, hit))

SplitCuts(re, s, p) ==
    CutsAt(re, s, Least(p, Len(s), LAMBDA q : MatchEnd(re, s, q) \notin {0, p}))

\* the pieces of s between the separators cuts
PiecesBetween(s, cuts) ==
    [k \in 1..(Len(cuts) + 1) |->
        SubSeq(s, IF k = 1 THEN 1 ELSE cuts[k - 1][2],
                  IF k = Len(cuts) + 1 THEN Len(s) ELSE cuts[k][1] - 1)]

\* String.prototype.split(re)
Split(re, s) == PiecesBetween(s, SplitCuts(re, s, 1))

\* TrimAndDrop without the filter
TrimAndKeep(pieces) == [i \in 1..Len(pieces) |-> Trim(pieces[i])]

\* .map(p => p.trim()).filter(p => p.length > 0)
TrimAndDrop(pieces) ==
    SelectSeq([i \in 1..Len(pieces) |-> Trim(pieces[i])], LAMBDA p : Len(p) > 0)

-----------------------------------------------------------------------------
(* Prose segmentation.                                                     *)

\* the for-of loop of splitLongParagraph from sentence i on
RECURSIVE PackSentences(_, _, _, _)
PackSentences(sentences, i, chunks, currentChunk) ==
    IF i > Len(sentences)
    THEN IF Trim(currentChunk) # <<>> THEN Append(chunks, Trim(currentChunk)) ELSE chunks
    ELSE IF Len(currentChunk \o sentences[i]) > ChunkLimit /\ Len(currentChunk) > 0
         THEN PackSentences(sentences, i + 1, Append(chunks, Trim(currentChunk)), sentences[i])
         ELSE PackSentences(sentences, i + 1, chunks,
                  currentChunk \o (IF currentChunk # <<>> THEN <<" ">> ELSE <<>>) \o sentences[i])

SplitLongParagraph(paragraph) ==
    PackSentences(Split("sentence", paragraph), 1, <<>>, <<>>)

\* the array named paragraphs in splitTextIntoParagraphs
FirstPassParagraphs(t) == TrimAndDrop(Split("paragraph", t))

\* lines 308-313, for the array named paragraphs
ReSplitIfLong(first) ==
    IF Len(first) = 1 /\ Len(first[1]) > LongParagraphThreshold
    THEN SplitLongParagraph(first[1])
    ELSE first

SplitTextIntoParagraphs(t) == ReSplitIfLong(FirstPassParagraphs(t))

-----------------------------------------------------------------------------
(* Lyrics segmentation and verse titles.                                   *)

\* the array named verses in splitSongIntoVerses
FirstPassVerses(l) == TrimAndDrop(Split("verse", l))

\* the inner for loop: lines i.., six at a time (i counts from 1)
RECURSIVE GroupLines(_, _)
GroupLines(lines, i) ==
    IF i > Len(lines) THEN <<>>
    ELSE <<Join(SubSeq(lines, i, IF i + VerseGroupLines - 1 < Len(lines)
                                 THEN i + VerseGroupLines - 1 ELSE Len(lines)), <<"\n">>)>>
         \o GroupLines(lines, i + VerseGroupLines)

\* ProcessLines with the test lines.length <= 9
ProcessLinesOffByOne(verse, lines) ==
    IF Len(lines) <= MaxVerseLines + 1 THEN <<verse>> ELSE GroupLines(lines, 1)

\* lines 349-357: the verse as it is, or its lines in groups
ProcessLines(verse, lines) ==
    IF Len(lines) <= MaxVerseLines THEN <<verse>> ELSE GroupLines(lines, 1)

\* the body of the for-of loop of splitSongIntoVerses, for one verse
ProcessVerse(verse) == ProcessLines(verse, Split("line", verse))

RECURSIVE ProcessVerses(_, _)
ProcessVerses(vs, k) ==
    IF k > Len(vs) THEN <<>> ELSE ProcessVerse(vs[k]) \o ProcessVerses(vs, k + 1)

SplitSongIntoVerses(l) == ProcessVerses(FirstPassVerses(l), 1)

\* `${n}` for a non-negative integer n
RECURSIVE NumberToString(_)
NumberToString(n) ==
    IF n < 10 THEN <<Digits10[n + 1]>>
    ELSE NumberToString(n \div 10) \o <<Digits10[(n % 10) + 1]>>

RefrainWord == <<"r", "e", "f", "r", "a", "i", "n">>
RefrainSuffix == <<" ", "-", " ", "R", "e", "f", "r", "a", "i", "n">>
CoupletSuffix == <<" ", "-", " ", "C", "o", "u", "p", "l", "e", "t", " ">>
PartieSuffix == <<" ", "-", " ", "P", "a", "r", "t", "i", "e", " ">>

\* /^\d+\./.test(verse)
StartsWithVerseNumber(verse) ==
    LET stop == DigitRunEnd(verse, 1)
    IN  stop > 1 /\ stop <= Len(verse) /\ verse[stop] = "."

\* GenerateVerseTitle with the verse-number test made before the refrain test
GenerateVerseTitleNumberFirst(verse, songTitle, index) ==
    IF StartsWithVerseNumber(verse)
    THEN songTitle \o CoupletSuffix \o SubSeq(verse, 1, DigitRunEnd(verse, 1) - 1)
    ELSE IF StartsWith(verse, <<"R", "/">>) \/ Includes(ToLowerCase(verse), RefrainWord)
    THEN songTitle \o RefrainSuffix
    ELSE songTitle \o PartieSuffix \o NumberToString(index)

GenerateVerseTitle(verse, songTitle, index) ==
    IF StartsWith(verse, <<"R", "/">>) \/ Includes(ToLowerCase(verse), RefrainWord)
    THEN songTitle \o RefrainSuffix
    ELSE IF StartsWithVerseNumber(verse)
    THEN songTitle \o CoupletSuffix \o SubSeq(verse, 1, DigitRunEnd(verse, 1) - 1)
    ELSE songTitle \o PartieSuffix \o NumberToString(index)

-----------------------------------------------------------------------------
(* Deck assembly.  A slide is recorded with the texts put on it: its       *)
(* corner label (number), its heading (title) and its second text (body).  *)
(* Positions, fonts, colours and the date line of the title slide are not  *)
(* modelled.                                                               *)

\* generateSlideTitle: the computed short title is discarded
GenerateSlideTitle(paragraph, readingTitle, index) ==
    readingTitle \o <<" ", "(">> \o NumberToString(index) \o <<")">>

\* the bullet of the source is written "*"
BulletIfLong(paragraph, sentences) ==
    IF Len(paragraph) > BulletThreshold /\ Len(sentences) > 2
    THEN Join([i \in 1..Len(sentences) |-> <<"*", " ">> \o Trim(sentences[i])], <<"\n">>)
    ELSE paragraph

FormatParagraphContent(paragraph) == BulletIfLong(paragraph, Split("sentence", paragraph))

\* TitleSlide labelled from 0
TitleSlideFromZero(p, n) ==
    [number |-> n - 1, kind |-> "title", id |-> "", title |-> p.title, body |-> <<>>]

\* the title slide of the deck, labelled n
TitleSlide(p, n) ==
    [number |-> n, kind |-> "title", id |-> "", title |-> p.title, body |-> <<>>]

\* ReadingSlides with the paragraph slides labelled startSlideNumber + index
ReadingSlidesLabelledByIndex(reading, startSlideNumber, chunks) ==
    <<[number |-> startSlideNumber, kind |-> "readingTitle", id |-> reading.id,
       title |-> reading.title, body |-> reading.reference]>>
    \o [i \in 1..Len(chunks) |->
           [number |-> startSlideNumber + i - 1, kind |-> "paragraph", id |-> reading.id,
            title |-> GenerateSlideTitle(chunks[i], reading.title, i),
            body |-> FormatParagraphContent(chunks[i])]]

\* lines 94-191: the title slide of the reading, then one slide per paragraph;
\* slide i + 1 is added when slideCount is i
ReadingSlides(reading, startSlideNumber, chunks) ==
    <<[number |-> startSlideNumber, kind |-> "readingTitle", id |-> reading.id,
       title |-> reading.title, body |-> reading.reference]>>
    \o [i \in 1..Len(chunks) |->
           [number |-> startSlideNumber + i, kind |-> "paragraph", id |-> reading.id,
            title |-> GenerateSlideTitle(chunks[i], reading.title, i),
            body |-> FormatParagraphContent(chunks[i])]]

\* the slides createReadingSlides adds; its return value is their number
CreateReadingSlides(reading, startSlideNumber) ==
    ReadingSlides(reading, startSlideNumber, SplitTextIntoParagraphs(reading.text))

\* [song.author, song.melody].filter(Boolean).join(' - '), nothing when both are absent
Subtitle(s) == Join(SelectSeq(<<s.author, s.melody>>, LAMBDA x : x # <<>>), <<" ", "-", " ">>)

\* SongSlides that adds the title slide only for a song with author or melody
SongSlidesTitleIfSubtitle(s, startSlideNumber, chunks) ==
    LET head == IF s.author # <<>> \/ s.melody # <<>>
                THEN <<[number |-> startSlideNumber, kind |-> "songTitle", id |-> s.id,
                        title |-> s.title, body |-> Subtitle(s)]>>
                ELSE <<>>
    IN  head
        \o [i \in 1..Len(chunks) |->
               [number |-> startSlideNumber + Len(head) + i - 1, kind |-> "verse", id |-> s.id,
                title |-> GenerateVerseTitle(chunks[i], s.title, i),
                body |-> Trim(chunks[i])]]

\* lines 200-296: the title slide of the song, with the subtitle if there is
\* one, then one slide per verse; slide i + 1 is added when slideCount is i
SongSlides(s, startSlideNumber, chunks) ==
    <<[number |-> startSlideNumber, kind |-> "songTitle", id |-> s.id,
       title |-> s.title, body |-> Subtitle(s)]>>
    \o [i \in 1..Len(chunks) |->
           [number |-> startSlideNumber + i, kind |-> "verse", id |-> s.id,
            title |-> GenerateVerseTitle(chunks[i], s.title, i),
            body |-> Trim(chunks[i])]]

\* the slides createSongSlides adds; its return value is their number
CreateSongSlides(s, startSlideNumber) ==
    SongSlides(s, startSlideNumber, SplitSongIntoVerses(s.lyrics))

\* Array.prototype.find(x => x.id === id): index of the first match, 0 for undefined
FindById(items, id) ==
    IF \A i \in 1..Len(items) : items[i].id # id THEN 0
    ELSE Least(1, Len(items), LAMBDA i : items[i].id = id)

\* SlidesIfFound without the test of the found item: a slide without texts is
\* added for an item that is not found
SlidesIfFoundUnchecked(type, items, at, n) ==
    IF at = 0
    THEN <<[number |-> n, kind |-> IF type = "reading" THEN "readingTitle" ELSE "songTitle",
            id |-> "", title |-> <<>>, body |-> <<>>]>>
    ELSE IF type = "reading" THEN CreateReadingSlides(items[at], n)
    ELSE CreateSongSlides(items[at], n)

\* lines 71-74 and 77-80: the slides of the found item, none for undefined
SlidesIfFound(type, items, at, n) ==
    IF at = 0 THEN <<>>
    ELSE IF type = "reading" THEN CreateReadingSlides(items[at], n)
    ELSE CreateSongSlides(items[at], n)

\* the slides one iteration of the for-of loop adds for slideItem
SlidesForItem(p, slideItem, n) ==
    IF slideItem.type = "reading"
    THEN SlidesIfFound("reading", p.readings, FindById(p.readings, slideItem.id), n)
    ELSE IF slideItem.type = "song"
    THEN SlidesIfFound("song", p.songs, FindById(p.songs, slideItem.id), n)
    ELSE <<>>

\* InsertByOrder with x placed before the elements of equal order
InsertBeforeEqual(sorted, x) ==
    LET at == Least(1, Len(sorted), LAMBDA i : sorted[i].order - x.order >= 0)
    IN  SubSeq(sorted, 1, at - 1) \o <<x>> \o SubSeq(sorted, at, Len(sorted))

\* sorted with x placed after every element whose order is not greater
InsertByOrder(sorted, x) ==
    LET at == Least(1, Len(sorted), LAMBDA i : sorted[i].order - x.order > 0)
    IN  SubSeq(sorted, 1, at - 1) \o <<x>> \o SubSeq(sorted, at, Len(sorted))

\* [...slideOrder].sort((a, b) => a.order - b.order); Array.prototype.sort is stable
RECURSIVE SortByOrder(_)
SortByOrder(slideOrder) ==
    IF slideOrder = <<>> THEN <<>>
    ELSE InsertByOrder(SortByOrder(SubSeq(slideOrder, 1, Len(slideOrder) - 1)),
                       slideOrder[Len(slideOrder)])

\* `${presentation.title}.pptx`
FileName(p) == p.title \o <<".", "p", "p", "t", "x">>

-----------------------------------------------------------------------------
(* The prose machine: one call of splitTextIntoParagraphs.                  *)

ProseAlphabet == {"a", "B", ".", " ", "\n"}

\* every text of at most MaxTextLen characters over ProseAlphabet
ShortTexts == UNION {[1..n -> ProseAlphabet] : n \in 0..MaxTextLen}

\* a sentence of len characters: first, then letters, then the terminator
Sentence(len, first, term) ==
    [i \in 1..len |-> IF i = len THEN term ELSE IF i = 1 THEN first ELSE "a"]

\* paragraphs of 1..MaxSentences sentences, all with the same first letter,
\* terminator and separator
LongTexts ==
    {Join([i \in 1..Len(lens) |-> Sentence(lens[i], first, term)], sep) :
        lens \in UNION {[1..n -> SentenceLens] : n \in 1..MaxSentences},
        first \in {"a", "B"}, term \in {".", "!"}, sep \in {<<" ">>, <<"\n", " ">>}}

SongIdle ==
    /\ song = [title |-> <<>>, lyrics |-> <<>>]
    /\ verses = <<>>
    /\ verseTitles = <<>>
    /\ songPc = "idle"

ExportIdle ==
    /\ presentation = [title |-> <<>>, readings |-> {}, songs |-> {}, slideOrder |-> <<>>]
    /\ pptx = <<>>
    /\ slideNumber = 0
    /\ sortedSlides = <<>>
    /\ cursor = 0
    /\ files = <<>>
    /\ exportPc = "idle"

ProseIdle ==
    /\ text = <<>>
    /\ paragraphs = <<>>
    /\ prosePc = "idle"

PromptIdle ==
    /\ slideTitle = <<>>
    /\ slideType = "title"
    /\ prompt = <<>>
    /\ promptPc = "idle"

\* the PreviewPanel after mounting (lines 31-35), no export asked for
HandlerIdle ==
    /\ apiKey = <<>>
    /\ exporting = FALSE
    /\ exportingWithImages = FALSE
    /\ showImageOptions = FALSE
    /\ exportProgress = 0
    /\ alerts = <<>>
    /\ resetTimer = FALSE

EnhanceIdle ==
    /\ enhancePc = "idle"
    /\ slideIndex = 0
    /\ enhancedSlides = <<>>
    /\ requests = <<>>
    /\ lastOutcome = [kind |-> "none", output_url |-> <<>>]
    /\ pending = {}
    /\ progressLog = <<>>
    /\ success = "none"
    /\ exportCalls = 0

PanelIdle ==
    /\ startedBy = "none"
    /\ panelPc = "none"
    /\ HandlerIdle
    /\ EnhanceIdle

\* a field that the JSON body of the AELF response does not have
AbsentField == [kind |-> "absent", reference |-> <<>>, text |-> <<>>, contenu |-> <<>>]

\* a response of the AELF server that has not come: no status, no body
NoResponse ==
    [kind |-> "none",
     data |-> [lecture_1 |-> AbsentField, psaume |-> AbsentField,
               lecture_2 |-> AbsentField, evangile |-> AbsentField]]

\* the promise of getReadingsForDate before it settles
Pending == [state |-> "pending", readings |-> <<>>]

AelfIdle ==
    /\ date = <<>>
    /\ aelfUrl = <<>>
    /\ aelfResponse = NoResponse
    /\ aelfResult = Pending
    /\ aelfPc = "idle"

\* lines 19-26 and 51-58: the formData of an empty form
DefaultFormData ==
    [title |-> <<>>, lyrics |-> <<>>, author |-> <<>>, melody |-> <<>>,
     category |-> "other", order |-> 0]

CleanIdle == cleanInput = <<>> /\ cleanOutputs = <<>>

PreviewIdle == previewRows = <<>> /\ previewTotal = 0

SessionIdle == runs = <<>> /\ events = 0

\* lines 15-26: SongsPanel as it is mounted, without songs
SongsPanelIdle ==
    /\ songsProp = <<>>
    /\ showAddForm = FALSE
    /\ showLibrary = FALSE
    /\ editingId = "null"
    /\ formData = DefaultFormData
    /\ lastEvent = [handler |-> "none", editing |-> "null", calls |-> <<>>]
    /\ nextId = 0

UiIdle == CleanIdle /\ PreviewIdle /\ SessionIdle /\ SongsPanelIdle

InitProse ==
    /\ text \in ShortTexts \cup LongTexts
    /\ paragraphs = <<>>
    /\ prosePc = "ready"
    /\ SongIdle
    /\ ExportIdle
    /\ PromptIdle
    /\ PanelIdle
    /\ AelfIdle
    /\ UiIdle

CallSplitTextIntoParagraphs ==
    /\ prosePc = "ready"
    /\ paragraphs' = SplitTextIntoParagraphs(text)
    /\ prosePc' = "done"
    /\ UNCHANGED <<text, songVars, exportVars, promptVars, panelVars, aelfVars, uiVars>>

NextProse == CallSplitTextIntoParagraphs

SpecProse == InitProse /\ [][NextProse]_vars

-----------------------------------------------------------------------------
(* Claims about prose segmentation.                                        *)

\* the call re-split a single long paragraph by sentences
ReSplitTaken ==
    /\ prosePc = "done"
    /\ Len(FirstPassParagraphs(text)) = 1
    /\ Len(FirstPassParagraphs(text)[1]) > LongParagraphThreshold

\* the sentences of the single long paragraph
SentencesOfText == Split("sentence", FirstPassParagraphs(text)[1])

\* chunk is sentences a..b of the paragraph, joined by single spaces
IsSentenceBlock(chunk, a, b) == chunk = Join(SubSeq(SentencesOfText, a, b), <<" ">>)

\* C6: when the first pass yields exactly one segment longer than 400
\* characters, every returned chunk is a block of whole consecutive sentences
\* (no sentence is split across chunks) and has at most 300 characters unless
\* it is one single sentence.
C6_ChunksWithinLimit ==
    ReSplitTaken =>
        /\ Join(paragraphs, <<" ">>) = Join(SentencesOfText, <<" ">>)
        /\ \A k \in 1..Len(paragraphs) :
              /\ \E a, b \in 1..Len(SentencesOfText) : IsSentenceBlock(paragraphs[k], a, b)
              /\ \/ Len(paragraphs[k]) <= ChunkLimit
                 \/ \E a \in 1..Len(SentencesOfText) : IsSentenceBlock(paragraphs[k], a, a)

\* the characters of s that are not white space
Solid(s) == SelectSeq(s, LAMBDA c : ~IsSpace(c))

\* least index >= from where part occurs in s, 0 when there is none
FirstOccurrence(s, part, from) ==
    LET last == Len(s) - Len(part) + 1
        at == Least(from, last, LAMBDA i :
                  /\ s[i + Len(part) - 1] = part[Len(part)]
                  /\ SubSeq(s, i, i + Len(part) - 1) = part)
    IN  IF at > last THEN 0 ELSE at

\* chunks k.. occur one after another, without overlap, in s from index from on
RECURSIVE OccurInOrder(_, _, _, _)
OccurInOrder(chunks, k, s, from) ==
    IF k > Len(chunks) THEN TRUE
    ELSE LET at == FirstOccurrence(s, Solid(chunks[k]), from)
         IN  at # 0 /\ OccurInOrder(chunks, k + 1, s, at + Len(Solid(chunks[k])))

\* C7: no returned chunk is empty or white space only, the chunks occur in the
\* input in the order they are returned (white space aside), and an empty or
\* white-space-only input gives the empty sequence.
C7_ChunksNonEmptyInOrder ==
    prosePc = "done" =>
        /\ \A k \in 1..Len(paragraphs) : Trim(paragraphs[k]) # <<>>
        /\ OccurInOrder(paragraphs, 1, Solid(text), 1)
        /\ (Trim(text) = <<>> => paragraphs = <<>>)

\* a long paragraph was re-split into several chunks
C7_Witness == ReSplitTaken /\ Len(paragraphs) >= 2

-----------------------------------------------------------------------------
(* The song machine: splitSongIntoVerses on the lyrics of one song, then   *)
(* the forEach of createSongSlides that titles every chunk.                *)

LyricsAlphabet == {"a", "R", "/", "1", ".", " ", "\n"}

\* every lyrics text of at most MaxLyricsLen characters over LyricsAlphabet
ShortLyrics == UNION {[1..n -> LyricsAlphabet] : n \in 0..MaxLyricsLen}

\* what a generated verse starts with
VerseOpenings ==
    { <<>>,
      <<"R", "/", " ">>,
      <<"2", ".", " ">>,
      <<"1", "0", ".">>,
      <<"3", ".", " ", "R", "e", "f", "r", "a", "i", "n", " ">>,
      <<"L", "e", " ", "r", "e", "F", "R", "A", "I", "N", " ">>,
      <<"x", " ", "R", "/">>,
      <<"x", " ", "4", ".">> }

\* a verse of n lines: the opening, then one distinct letter per line
VerseBlock(opening, n) ==
    opening \o Join([i \in 1..n |-> <<Lower26[((i - 1) % 26) + 1]>>], <<"\n">>)

\* one verse of up to MaxLines lines, alone or followed by a short second verse
BlockLyrics ==
    {VerseBlock(o, n) : o \in VerseOpenings, n \in 1..MaxLines}
    \cup
    {VerseBlock(o1, n1) \o sep \o VerseBlock(o2, n2) :
        o1 \in {<<>>, <<"2", ".", " ">>}, n1 \in 1..MaxLines,
        o2 \in VerseOpenings, n2 \in {1, 2},
        sep \in {<<"\n">>, <<"\n", " ", "\n">>}}

SongTitles == {<<"G">>, <<"A", "v", "e">>}

InitSong ==
    /\ song \in {[title |-> t, lyrics |-> l] : t \in SongTitles, l \in ShortLyrics \cup BlockLyrics}
    /\ verses = <<>>
    /\ verseTitles = <<>>
    /\ songPc = "ready"
    /\ ProseIdle
    /\ ExportIdle
    /\ PromptIdle
    /\ PanelIdle
    /\ AelfIdle
    /\ UiIdle

CallSplitSongIntoVerses ==
    /\ songPc = "ready"
    /\ verses' = SplitSongIntoVerses(song.lyrics)
    /\ songPc' = IF verses' = <<>> THEN "done" ELSE "titles"
    /\ UNCHANGED <<song, verseTitles, proseVars, exportVars, promptVars, panelVars, aelfVars, uiVars>>

\* one iteration of verses.forEach((verse, index) => ...), index + 1 = i
CallGenerateVerseTitle ==
    /\ songPc = "titles"
    /\ LET i == Len(verseTitles) + 1
       IN  /\ verseTitles' = Append(verseTitles, GenerateVerseTitle(verses[i], song.title, i))
           /\ songPc' = IF i = Len(verses) THEN "done" ELSE "titles"
    /\ UNCHANGED <<song, verses, proseVars, exportVars, promptVars, panelVars, aelfVars, uiVars>>

NextSong == CallSplitSongIntoVerses \/ CallGenerateVerseTitle

SpecSong == InitSong /\ [][NextSong]_vars

-----------------------------------------------------------------------------
(* Claims about lyrics segmentation and verse titles.                      *)

\* number of lines of s: one more than its newlines
LineCount(s) == 1 + Cardinality({i \in 1..Len(s) : s[i] = "\n"})

\* index of the k-th newline of s; 0 for k = 0, Len(s) + 1 when s has fewer
NthNewline(s, k) ==
    IF k = 0 THEN 0
    ELSE Least(1, Len(s), LAMBDA i :
             s[i] = "\n" /\ Cardinality({j \in 1..i : s[j] = "\n"}) = k)

\* lines a..b of s, newlines between them included
LinesOf(s, a, b) == SubSeq(s, NthNewline(s, a - 1) + 1, NthNewline(s, b) - 1)

\* what C8 says a segment becomes
ExpectedChunks(segment) ==
    LET n == LineCount(segment)
    IN  IF n <= 8 THEN <<segment>>
        ELSE [j \in 1..((n + 5) \div 6) |->
                 LinesOf(segment, 6 * (j - 1) + 1, IF 6 * j < n THEN 6 * j ELSE n)]

RECURSIVE Flatten(_)
Flatten(seqs) == IF seqs = <<>> THEN <<>> ELSE Head(seqs) \o Flatten(Tail(seqs))

\* C8: a segment of n <= 8 lines is returned unchanged as one chunk, a segment
\* of n > 8 lines becomes ceil(n/6) consecutive chunks of 6 lines (the last one
\* the remainder), in order; no returned chunk is empty or longer than 8 lines.
C8_VersesOfAtMostEightLines ==
    songPc # "ready" =>
        /\ verses = Flatten([k \in 1..Len(FirstPassVerses(song.lyrics)) |->
                                ExpectedChunks(FirstPassVerses(song.lyrics)[k])])
        /\ \A k \in 1..Len(verses) : Len(verses[k]) > 0 /\ LineCount(verses[k]) <= 8

\* a verse of 20 lines was cut into chunks of 6, 6, 6 and 2 lines
C8_Witness ==
    /\ songPc # "ready"
    /\ Len(FirstPassVerses(song.lyrics)) = 1
    /\ LineCount(FirstPassVerses(song.lyrics)[1]) = 20
    /\ [k \in 1..Len(verses) |-> LineCount(verses[k])] = <<6, 6, 6, 2>>

\* only white space lies between the start of the line of index q and q
AtLineStart(s, q) ==
    \A j \in 1..(q - 1) : (\A i \in j..(q - 1) : s[i] # "\n") => IsSpace(s[j])

\* s[q..e-1] is white space that starts and ends with a newline
IsBlankLineBoundary(s, q, e) ==
    /\ e >= q + 2
    /\ s[q] = "\n"
    /\ s[e - 1] = "\n"
    /\ \A j \in q..(e - 1) : IsSpace(s[j])

\* "R/" stands at index q of s
RefrainMarkerAt(s, q) == q < Len(s) /\ s[q] = "R" /\ s[q + 1] = "/"

\* digits followed by a period stand at index q of s
VerseNumberAt(s, q) ==
    \E n \in 1..(Len(s) - q) :
        /\ \A j \in q..(q + n - 1) : IsDigit(s[j])
        /\ s[q + n] = "."

\* C9: the lyrics are split only at blank-line boundaries, in front of an "R/"
\* that starts a line and in front of a verse number that starts a line; an
\* "R/" or a verse number in the middle of a line causes no split.
C9_SplitsOnlyAtLineStarts ==
    songPc # "ready" =>
        LET cuts == SplitCuts("verse", song.lyrics, 1)
        IN  \A k \in 1..Len(cuts) :
                \/ IsBlankLineBoundary(song.lyrics, cuts[k][1], cuts[k][2])
                \/ /\ cuts[k][2] = cuts[k][1]
                   /\ AtLineStart(song.lyrics, cuts[k][1])
                   /\ \/ RefrainMarkerAt(song.lyrics, cuts[k][1])
                      \/ VerseNumberAt(song.lyrics, cuts[k][1])

\* c is the letter l in lower or upper case
SameLetter(c, l) == c = l \/ \E k \in 1..26 : Lower26[k] = l /\ Upper26[k] = c

\* chunk contains "refrain" in any letter case
HasRefrainWord(chunk) ==
    \E i \in 1..(Len(chunk) - 6) : \A j \in 1..7 : SameLetter(chunk[i + j - 1], RefrainWord[j])

\* the value of a string of decimal digits
RECURSIVE DecimalValue(_)
DecimalValue(ds) ==
    IF ds = <<>> THEN 0
    ELSE 10 * DecimalValue(SubSeq(ds, 1, Len(ds) - 1))
         + ((CHOOSE d \in 1..10 : Digits10[d] = ds[Len(ds)]) - 1)

\* title is prefix followed by the decimal numeral of i
IsNumbered(title, prefix, i) ==
    /\ StartsWith(title, prefix)
    /\ Len(title) > Len(prefix)
    /\ LET numeral == SubSeq(title, Len(prefix) + 1, Len(title))
       IN  /\ \A j \in 1..Len(numeral) : IsDigit(numeral[j])
           /\ numeral[1] # "0"
           /\ DecimalValue(numeral) = i

\* the title C10 gives to the i-th chunk of the song titled t
TitleByPrecedence(chunk, t, i, title) ==
    IF RefrainMarkerAt(chunk, 1) \/ HasRefrainWord(chunk)
    THEN title = t \o RefrainSuffix
    ELSE IF VerseNumberAt(chunk, 1)
    THEN \E n \in 1..Len(chunk) :
            /\ \A j \in 1..n : IsDigit(chunk[j])
            /\ n < Len(chunk) /\ chunk[n + 1] = "."
            /\ title = t \o CoupletSuffix \o SubSeq(chunk, 1, n)
    ELSE IsNumbered(title, t \o PartieSuffix, i)

\* C10: the i-th chunk of the song (counting every chunk) is titled
\* "T - Refrain" if it starts with "R/" or contains "refrain" in any case, else
\* "T - Couplet N" if it starts with the digits N and a period, else
\* "T - Partie i".
C10_VerseTitlePrecedence ==
    \A i \in 1..Len(verseTitles) :
        TitleByPrecedence(verses[i], song.title, i, verseTitles[i])

\* a chunk that starts with a verse number and contains "refrain" was titled
\* a refrain, and a later chunk without marker was titled by its position
C10_Witness ==
    /\ Len(verseTitles) >= 2
    /\ VerseNumberAt(verses[1], 1) /\ HasRefrainWord(verses[1])
    /\ verseTitles[1] = song.title \o RefrainSuffix
    /\ verseTitles[2] = song.title \o PartieSuffix \o <<"2">>

-----------------------------------------------------------------------------
(* The export machine: one call of exportPresentation.                     *)

ReadingPool ==
    << [id |-> "r1", title |-> <<"L">>, reference |-> <<"I", "s">>,
        text |-> <<"a", ".", " ", "B">>],
       [id |-> "r2", title |-> <<"E">>, reference |-> <<"M", "t">>,
        text |-> <<" ">>] >>

SongPool ==
    << [id |-> "s1", title |-> <<"G">>, author |-> <<"X">>, melody |-> <<>>,
        lyrics |-> <<"R", "/", "a", "\n", "\n", "1", ".", "b">>],
       [id |-> "s2", title |-> <<"K">>, author |-> <<>>, melody |-> <<>>,
        lyrics |-> <<"a">>] >>

ItemIds == {"r1", "r2", "s1", "s2"}
TypeOfId(id) == IF id \in {"r1", "r2"} THEN "reading" ELSE "song"

\* the entries the editor can have put in the order list
OrderEntries == {[id |-> i, type |-> TypeOfId(i), order |-> k] : i \in ItemIds, k \in 1..MaxKey}

\* the items deleted since their entries were made: none, one, or all
Deletions == {{}, ItemIds} \cup {{i} : i \in ItemIds}

Presentations ==
    {[title |-> <<"M">>,
      readings |-> SelectSeq(ReadingPool, LAMBDA r : r.id \notin gone),
      songs |-> SelectSeq(SongPool, LAMBDA x : x.id \notin gone),
      slideOrder |-> o] :
        gone \in Deletions, o \in UNION {[1..n -> OrderEntries] : n \in 0..MaxOrder}}

Init ==
    /\ presentation \in Presentations
    /\ pptx = <<>>
    /\ slideNumber = 1
    /\ sortedSlides = <<>>
    /\ cursor = 0
    /\ files = <<>>
    /\ exportPc = "ready"
    /\ ProseIdle
    /\ SongIdle
    /\ PromptIdle
    /\ PanelIdle
    /\ AelfIdle
    /\ UiIdle

\* lines 7-66: the title slide, then the sorted copy of the order list
AddTitleSlide ==
    /\ exportPc = "ready"
    /\ pptx' = Append(pptx, TitleSlide(presentation, slideNumber))
    /\ slideNumber' = slideNumber + 1
    /\ sortedSlides' = SortByOrder(presentation.slideOrder)
    /\ cursor' = 1
    /\ exportPc' = IF sortedSlides' = <<>> THEN "write" ELSE "loop"
    /\ UNCHANGED <<presentation, files, proseVars, songVars, promptVars, panelVars, aelfVars, uiVars>>

\* lines 68-82: one iteration of the for-of loop
ProcessSlideItem ==
    /\ exportPc = "loop"
    /\ pptx' = pptx \o SlidesForItem(presentation, sortedSlides[cursor], slideNumber)
    /\ slideNumber' = slideNumber + (Len(pptx') - Len(pptx))
    /\ cursor' = cursor + 1
    /\ exportPc' = IF cursor' > Len(sortedSlides) THEN "write" ELSE "loop"
    /\ UNCHANGED <<presentation, sortedSlides, files, proseVars, songVars, promptVars, panelVars, aelfVars, uiVars>>

\* line 85: pptx.writeFile resolves, the file holds the deck
WriteFileResolves ==
    /\ exportPc = "write"
    /\ files' = Append(files, [fileName |-> FileName(presentation), slides |-> pptx])
    /\ exportPc' = "done"
    /\ UNCHANGED <<presentation, pptx, slideNumber, sortedSlides, cursor, proseVars, songVars, promptVars, panelVars, aelfVars, uiVars>>

\* line 85: pptx.writeFile rejects, exportPresentation rejects
WriteFileRejects ==
    /\ exportPc = "write"
    /\ exportPc' = "rejected"
    /\ UNCHANGED <<presentation, pptx, slideNumber, sortedSlides, cursor, files, proseVars, songVars, promptVars, panelVars, aelfVars, uiVars>>

Next ==
    \/ AddTitleSlide
    \/ ProcessSlideItem
    \/ WriteFileResolves
    \/ WriteFileRejects

Spec == Init /\ [][Next]_vars

-----------------------------------------------------------------------------
(* Claims about the export.                                                *)

Finished == exportPc \in {"write", "done", "rejected"}

\* entry refers to a reading or a song of p
Resolves(p, entry) ==
    \/ entry.type = "reading" /\ \E i \in 1..Len(p.readings) : p.readings[i].id = entry.id
    \/ entry.type = "song" /\ \E i \in 1..Len(p.songs) : p.songs[i].id = entry.id

\* C1: the corner labels of the slides, in emission order, are 1, 2, ..., N.
C1_SlideNumbersContinuous ==
    \A k \in 1..Len(pptx) : pptx[k].number = k

\* a finished deck with a reading, a song and an unresolved entry
C1_Witness ==
    /\ exportPc = "done"
    /\ \E k \in 1..Len(pptx) : pptx[k].kind = "paragraph"
    /\ \E k \in 1..Len(pptx) : pptx[k].kind = "verse"
    /\ \E k \in 1..Len(sortedSlides) : ~Resolves(presentation, sortedSlides[k])

\* a slide without its corner label
Unlabelled(slide) == [kind |-> slide.kind, id |-> slide.id, title |-> slide.title, body |-> slide.body]

\* the slides of one entry, without labels
EntryContent(p, entry) ==
    LET slides == SlidesForItem(p, entry, 1)
    IN  [k \in 1..Len(slides) |-> Unlabelled(slides[k])]

\* position of entry i of the order list when the list is arranged by ascending
\* key, entries of equal key in list order
RankInOrder(order, i) ==
    1 + Cardinality({j \in 1..Len(order) :
            \/ order[j].order < order[i].order
            \/ order[j].order = order[i].order /\ j < i})

\* the entry of the order list that has position k in that arrangement
EntryAtRank(order, k) == order[CHOOSE i \in 1..Len(order) : RankInOrder(order, i) = k]

\* the deck C2 describes, without labels
OrderedContent(p) ==
    <<Unlabelled(TitleSlide(p, 1))>>
    \o Flatten([k \in 1..Len(p.slideOrder) |-> EntryContent(p, EntryAtRank(p.slideOrder, k))])

\* C2: the title slide comes first, then the slides of the entries in ascending
\* key order, entries of equal key in the order of presentation.slideOrder, the
\* slides of one entry together.
C2_EmissionOrder ==
    Finished => [k \in 1..Len(pptx) |-> Unlabelled(pptx[k])] = OrderedContent(presentation)

\* a reading with key 2 listed before two different songs with key 1: the
\* slides of the first song, of the second song, then of the reading
C2_Witness ==
    /\ exportPc = "done"
    /\ Len(presentation.slideOrder) = 3
    /\ presentation.slideOrder[1].type = "reading" /\ presentation.slideOrder[1].order = 2
    /\ presentation.slideOrder[2].type = "song" /\ presentation.slideOrder[2].order = 1
    /\ presentation.slideOrder[3].type = "song" /\ presentation.slideOrder[3].order = 1
    /\ presentation.slideOrder[2].id # presentation.slideOrder[3].id
    /\ \A e \in 1..3 : Resolves(presentation, presentation.slideOrder[e])
    /\ pptx[1].kind = "title"
    /\ pptx[2].id = presentation.slideOrder[2].id
    /\ pptx[Len(pptx)].id = presentation.slideOrder[1].id
    /\ \E k \in 3..(Len(pptx) - 1) :
           /\ pptx[k].id = presentation.slideOrder[3].id
           /\ pptx[k + 1].id = presentation.slideOrder[1].id

\* p with the unresolved entries taken out of its order list
WithoutUnresolved(p) ==
    [p EXCEPT !.slideOrder = SelectSeq(p.slideOrder, LAMBDA e : Resolves(p, e))]

\* the deck of p: the title slide, then the slides of the sorted entries k..
RECURSIVE AssembleFrom(_, _, _, _)
AssembleFrom(p, sorted, k, deck) ==
    IF k > Len(sorted) THEN deck
    ELSE AssembleFrom(p, sorted, k + 1, deck \o SlidesForItem(p, sorted[k], Len(deck) + 1))

DeckOf(p) == AssembleFrom(p, SortByOrder(p.slideOrder), 1, <<TitleSlide(p, 1)>>)

\* C3: an unresolved entry gives no slide, and once the loop is over the deck,
\* labels included, is the deck of the same presentation without its
\* unresolved entries.
C3_UnresolvedEntriesSkipped ==
    /\ \A j \in 1..Len(sortedSlides) :
           j < cursor /\ ~Resolves(presentation, sortedSlides[j])
               => \A k \in 1..Len(pptx) : pptx[k].id # sortedSlides[j].id
    /\ Finished => pptx = DeckOf(WithoutUnresolved(presentation))

\* a finished export whose order list has an unresolved entry between two
\* resolved ones
C3_Witness ==
    /\ exportPc = "done"
    /\ Len(sortedSlides) = 3
    /\ Resolves(presentation, sortedSlides[1])
    /\ ~Resolves(presentation, sortedSlides[2])
    /\ Resolves(presentation, sortedSlides[3])
    /\ Len(files) = 1

\* number of slides the entries k.. contribute, a song's title slide counted
\* always (titleAlways) or only with an author or a melody
RECURSIVE CountFrom(_, _, _)
CountFrom(p, k, titleAlways) ==
    IF k > Len(p.slideOrder) THEN 0
    ELSE LET e == p.slideOrder[k]
             here ==
                IF ~Resolves(p, e) THEN 0
                ELSE IF e.type = "reading"
                THEN 1 + Len(SplitTextIntoParagraphs(p.readings[FindById(p.readings, e.id)].text))
                ELSE LET sg == p.songs[FindById(p.songs, e.id)]
                     IN  Len(SplitSongIntoVerses(sg.lyrics))
                         + (IF titleAlways \/ sg.author # <<>> \/ sg.melody # <<>> THEN 1 ELSE 0)
         IN  here + CountFrom(p, k + 1, titleAlways)

C5_EmptyOrderOneSlide ==
    presentation.slideOrder = <<>> =>
        /\ Finished => Len(pptx) = 1 /\ pptx[1].kind = "title" /\ pptx[1].number = 1
        /\ exportPc = "done" => Len(files) = 1 /\ Len(files[1].slides) = 1
        /\ exportPc # "done" => files = <<>>

\* the export of a presentation without readings, songs and entries is done
C5_Witness ==
    /\ exportPc = "done"
    /\ presentation.slideOrder = <<>>
    /\ presentation.readings = <<>>
    /\ presentation.songs = <<>>
    /\ Len(files) = 1

-----------------------------------------------------------------------------
(* PowerPointImageService.getOptimizedPrompts.                             *)

\* typeEnhancements, lines 227-231
TypeEnhancements ==
    [reading |->
        <<"r","e","l","i","g","i","o","u","s"," ","s","c","r","i","p","t","u",
          "r","e",","," ","b","i","b","l","e",","," ","h","o","l","y"," ","b",
          "o","o","k",","," ","d","i","v","i","n","e"," ","l","i","g","h","t",
          ","," ","p","e","a","c","e","f","u","l">>,
     song |->
        <<"c","h","u","r","c","h"," ","c","h","o","i","r",","," ","r","e","l",
          "i","g","i","o","u","s"," ","m","u","s","i","c",","," ","h","y","m",
          "n",","," ","s","p","i","r","i","t","u","a","l"," ","s","i","n","g",
          "i","n","g",","," ","h","a","r","m","o","n","y">>,
     title |->
        <<"c","h","u","r","c","h"," ","i","n","t","e","r","i","o","r",","," ",
          "a","l","t","a","r",","," ","c","r","o","s","s",","," ","s","t","a",
          "i","n","e","d"," ","g","l","a","s","s",","," ","s","a","c","r","e",
          "d"," ","s","p","a","c","e">>]

\* liturgicalKeywords, lines 234-242, in the order Object.entries lists them
LiturgicalKeywords ==
    << [keyword |-> <<"m","e","s","s","e">>,
        enhancement |->
            <<"c","a","t","h","o","l","i","c"," ","m","a","s","s"," ","c","e",
              "r","e","m","o","n","y",","," ","c","h","u","r","c","h"," ","i",
              "n","t","e","r","i","o","r",","," ","a","l","t","a","r",","," ",
              "s","a","c","r","e","d">>],
       [keyword |-> <<"é","v","a","n","g","i","l","e">>,
        enhancement |->
            <<"g","o","s","p","e","l"," ","b","o","o","k",","," ","b","i","b",
              "l","e",","," ","r","e","l","i","g","i","o","u","s"," ","s","c",
              "r","i","p","t","u","r","e",","," ","h","o","l","y"," ","l","i",
              "g","h","t">>],
       [keyword |-> <<"c","o","m","m","u","n","i","o","n">>,
        enhancement |->
            <<"h","o","l","y"," ","c","o","m","m","u","n","i","o","n",","," ",
              "e","u","c","h","a","r","i","s","t",","," ","c","h","a","l","i",
              "c","e",","," ","b","r","e","a","d"," ","a","n","d"," ","w","i",
              "n","e">>],
       [keyword |-> <<"c","h","a","n","t">>,
        enhancement |->
            <<"c","h","u","r","c","h"," ","c","h","o","i","r",","," ","r","e",
              "l","i","g","i","o","u","s"," ","m","u","s","i","c",","," ","h",
              "y","m","n",","," ","s","p","i","r","i","t","u","a","l"," ","s",
              "i","n","g","i","n","g">>],
       [keyword |-> <<"p","r","i","è","r","e">>,
        enhancement |->
            <<"p","r","a","y","e","r",","," ","h","a","n","d","s"," ","i","n",
              " ","p","r","a","y","e","r",","," ","s","p","i","r","i","t","u",
              "a","l"," ","m","e","d","i","t","a","t","i","o","n",","," ","c",
              "h","u","r","c","h">>],
       [keyword |-> <<"n","o","ë","l">>,
        enhancement |->
            <<"c","h","r","i","s","t","m","a","s",","," ","n","a","t","i","v",
              "i","t","y",","," ","s","t","a","r",","," ","p","e","a","c","e",
              "f","u","l"," ","n","i","g","h","t",","," ","h","o","l","y"," ",
              "f","a","m","i","l","y">>],
       [keyword |-> <<"p","â","q","u","e","s">>,
        enhancement |->
            <<"e","a","s","t","e","r",","," ","r","e","s","u","r","r","e","c",
              "t","i","o","n",","," ","s","u","n","r","i","s","e",","," ","h",
              "o","p","e",","," ","n","e","w"," ","l","i","f","e",","," ","c",
              "r","o","s","s">>] >>

\* the end of the template literal of line 254
QualitySuffix ==
    <<","," ","h","i","g","h"," ","q","u","a","l","i","t","y",","," ","p","r",
      "o","f","e","s","s","i","o","n","a","l",","," ","b","e","a","u","t","i",
      "f","u","l"," ","l","i","g","h","t","i","n","g",","," ","a","r","t","i",
      "s","t","i","c"," ","c","o","m","p","o","s","i","t","i","o","n">>

\* lines 247-252 with the break left out: the last keyword found is kept
BreakIndexLastMatch(basePrompt) ==
    Greatest(1, Len(LiturgicalKeywords),
             LAMBDA k : Includes(basePrompt, LiturgicalKeywords[k].keyword))

\* lines 247-252: the entry at which the loop breaks, 0 when it runs to the end
BreakIndex(basePrompt) ==
    Least(1, Len(LiturgicalKeywords),
          LAMBDA k : Includes(basePrompt, LiturgicalKeywords[k].keyword))
        % (Len(LiturgicalKeywords) + 1)

\* lines 244-252: the enhancement once the loop has ended at entry k
EnhancementAt(type, k) ==
    IF k = 0 THEN TypeEnhancements[type] ELSE LiturgicalKeywords[k].enhancement

GetOptimizedPrompts(title, type) ==
    title \o <<",", " ">> \o EnhancementAt(type, BreakIndex(ToLowerCase(title)))
          \o QualitySuffix

-----------------------------------------------------------------------------
(* The prompt machine: one call of getOptimizedPrompts.                    *)

\* most words in a generated slide title
MaxTitleWords == 2

\* the words slide titles are made of
TitleWords ==
    { <<"C","h","a","n","t"," ","d","e"," ","l","a">>,
      <<"m","e","s","s","e">>,
      <<"M","e","s","s","e">>,
      <<"É","v","a","n","g","i","l","e">>,
      <<"C","o","m","m","u","n","i","o","n">>,
      <<"e","n","c","h","a","n","t","é">>,
      <<"P","r","i","è","r","e">>,
      <<"N","O","Ë","L">>,
      <<"P","â","q","u","e","s">>,
      <<"G","l","o","r","i","a">>,
      <<"d","u">>,
      <<"R","/">> }

\* the titles of 1..MaxTitleWords words separated by single spaces
SlideTitles ==
    {Join(ws, <<" ">>) : ws \in UNION {[1..n -> TitleWords] : n \in 1..MaxTitleWords}}

SlideTypes == {"reading", "song", "title"}

InitPrompt ==
    /\ slideTitle \in SlideTitles
    /\ slideType \in SlideTypes
    /\ prompt = <<>>
    /\ promptPc = "ready"
    /\ ProseIdle
    /\ SongIdle
    /\ ExportIdle
    /\ PanelIdle
    /\ AelfIdle
    /\ UiIdle

CallGetOptimizedPrompts ==
    /\ promptPc = "ready"
    /\ prompt' = GetOptimizedPrompts(slideTitle, slideType)
    /\ promptPc' = "done"
    /\ UNCHANGED <<slideTitle, slideType, proseVars, songVars, exportVars, panelVars, aelfVars, uiVars>>

NextPrompt == CallGetOptimizedPrompts

SpecPrompt == InitPrompt /\ [][NextPrompt]_vars

-----------------------------------------------------------------------------
(* Claims about the image prompt.                                          *)

\* the keywords in the order the claim gives them
C11_KeywordOrder ==
    << <<"m","e","s","s","e">>,
       <<"é","v","a","n","g","i","l","e">>,
       <<"c","o","m","m","u","n","i","o","n">>,
       <<"c","h","a","n","t">>,
       <<"p","r","i","è","r","e">>,
       <<"n","o","ë","l">>,
       <<"p","â","q","u","e","s">> >>

\* the phrase the table gives for keyword kw
PhraseOf(kw) ==
    (CHOOSE e \in Range(LiturgicalKeywords) : e.keyword = kw).enhancement

\* keyword number j of the claim's order occurs in the lower-cased title
Occurs(j) == Includes(ToLowerCase(slideTitle), C11_KeywordOrder[j])

\* the prompt is made of the title, the phrase and the quality suffix
PromptUses(phrase) ==
    prompt = slideTitle \o <<",", " ">> \o phrase \o QualitySuffix

\* C11: the prompt returned for a title and a content type uses the phrase
\* of the first keyword, in the order messe, évangile, communion, chant,
\* prière, noël, pâques, that occurs in the lower-cased title, and the default
\* phrase of the content type only when no keyword occurs; the prompt is
\* thereby a function of the title and the type.
C11_FirstKeywordWins ==
    promptPc = "done" =>
        /\ \A j \in DOMAIN C11_KeywordOrder :
               (Occurs(j) /\ \A i \in 1..(j - 1) : ~Occurs(i))
                   => PromptUses(PhraseOf(C11_KeywordOrder[j]))
        /\ (\A j \in DOMAIN C11_KeywordOrder : ~Occurs(j))
               => PromptUses(TypeEnhancements[slideType])

\* "Chant de la messe" as the title of a song: chant and messe both occur,
\* and the prompt carries the phrase of messe
C11_Witness ==
    /\ promptPc = "done"
    /\ slideType = "song"
    /\ slideTitle = <<"C","h","a","n","t"," ","d","e"," ","l","a"," ","m","e",
                   "s","s","e">>
    /\ Occurs(1) /\ Occurs(4)
    /\ PromptUses(PhraseOf(C11_KeywordOrder[1]))

-----------------------------------------------------------------------------
(* PowerPointImageService: the API key, the slide titles, the progress     *)
(* values and the image requests.                                          *)

\* line 189: a valid key is longer than this
MinKeyLength == 10

\* line 190
PlaceholderKey ==
    <<"y","o","u","r","-","d","e","e","p","a","i","-","a","p","i","-","k","e",
      "y","-","h","e","r","e">>

\* validateApiKey, lines 187-193
ValidateApiKey(key) ==
    /\ key # <<>>
    /\ Len(key) > MinKeyLength
    /\ key # PlaceholderKey
    /\ ~Includes(key, <<"e","x","a","m","p","l","e">>)
    /\ ~Includes(key, <<"t","e","s","t">>)

\* line 65
TotalSlides(p) == Len(p.slideOrder) + 1

\* 20 + i * 70, without the division by totalSlides
SlideProgressUnscaled(i, totalSlides) == 20 + i * 70

\* lines 70, 76, 103: Math.round(20 + (i / totalSlides) * 70), halves rounded up
SlideProgress(i, totalSlides) ==
    (2 * (20 * totalSlides + 70 * i) + totalSlides) \div (2 * totalSlides)

\* lines 95, 98: item?.title || `${word}${i}`, at = 0 for an item not found
TitleOrDefault(items, at, word, i) ==
    IF at # 0 /\ items[at].title # <<>> THEN items[at].title
    ELSE word \o NumberToString(i)

\* lines 89-99: the title of order entry number i
ContentTitle(p, slideItem, i) ==
    IF slideItem.type = "reading"
    THEN TitleOrDefault(p.readings, FindById(p.readings, slideItem.id),
                        <<"L","e","c","t","u","r","e"," ">>, i)
    ELSE TitleOrDefault(p.songs, FindById(p.songs, slideItem.id),
                        <<"C","h","a","n","t"," ">>, i)

\* lines 81, 89-99: the title sent for iteration i of the loop
SlideTitleAt(p, i) ==
    IF i = 0 THEN p.title ELSE ContentTitle(p, p.slideOrder[i], i)

\* lines 81, 91: the slide type sent for iteration i of the loop
SlideTypeAt(p, i) ==
    IF i = 0 THEN "title" ELSE p.slideOrder[i].type

\* lines 134-146: the request fetch sends, its Api-Key header and its text
Request(title, type, key) ==
    [apiKey |-> key, text |-> GetOptimizedPrompts(title, type)]

\* lines 82-86 and 109-113: the record pushed for iteration i; the record of
\* the title has no id and no order, written "" and 0
EnhancedSlide(p, i, url) ==
    IF i = 0
    THEN [id |-> "", type |-> "title", order |-> 0,
          title |-> p.title, imageUrl |-> url]
    ELSE [id |-> p.slideOrder[i].id, type |-> p.slideOrder[i].type,
          order |-> p.slideOrder[i].order,
          title |-> ContentTitle(p, p.slideOrder[i], i), imageUrl |-> url]

\* lines 121-124: { ...presentation, enhancedSlides }
EnhancedPresentation(p, slides) ==
    [title |-> p.title, readings |-> p.readings, songs |-> p.songs,
     slideOrder |-> p.slideOrder, enhancedSlides |-> slides]

\* what can come of the k-th fetch: it rejects, the status is not ok, the body
\* is not JSON, the JSON has no output_url, the JSON has one ("u" and k)
Outcomes(k) ==
    {[kind |-> "transportError", output_url |-> <<>>],
     [kind |-> "notOk", output_url |-> <<>>],
     [kind |-> "badJson", output_url |-> <<>>],
     [kind |-> "noUrl", output_url |-> <<>>],
     [kind |-> "url", output_url |-> <<"u">> \o NumberToString(k)]}

\* generateImageForSlide without its try/catch: a rejected fetch and a body
\* that is not JSON are thrown to the caller
GenerateImageForSlideUncaught(outcome) ==
    [throws |-> outcome.kind \in {"transportError", "badJson"},
     url |-> IF outcome.kind \in {"url", "noUrl"} THEN outcome.output_url ELSE <<>>]

\* lines 132-158: what generateImageForSlide does with the outcome of its
\* fetch; result.output_url || '' when the response is ok, '' otherwise
GenerateImageForSlide(outcome) ==
    [throws |-> FALSE,
     url |-> IF outcome.kind \in {"url", "noUrl"} THEN outcome.output_url ELSE <<>>]

\* the loop goes on without awaiting the image
DoNotAwaitImage == "awaitDelay"

\* lines 81, 108: await this.generateImageForSlide(...)
AwaitImage == "awaitFetch"

\* line 99: the message of alert() when the enhanced export failed
ImagesAlert == "Erreur lors de la génération d'images. Export PowerPoint standard effectué."

-----------------------------------------------------------------------------
(* The panel machine: one export, started by a handler of PreviewPanel or  *)
(* by a call of enhanceWithImages with an onProgress callback.  The calls  *)
(* of exportPresentation are run by the actions of the export machine.     *)

\* most entries in the order list of an enhanced presentation
MaxPanelOrder == 2

\* the keys the user can have typed, or a caller can have put in the config
KeyPool ==
    { <<>>,
      <<"a","b","c","d","e","f","g","h","i","j">>,
      <<"y","o","u","r","-","d","e","e","p","a","i","-","a","p","i","-","k",
        "e","y","-","h","e","r","e">>,
      <<"m","y","-","e","x","a","m","p","l","e","-","k","e","y","-","1">>,
      <<"l","a","t","e","s","t","-","k","e","y","-","0","1">>,
      <<"a","b","c","d","e","f","g","h","i","j","k">>,
      <<"T","E","S","T","-","0","1","2","3","4","5","6","7","8","9">> }

PanelOrderEntries == {e \in OrderEntries : e.id \in {"r1", "s1"} /\ e.order <= 2}

PanelPresentations ==
    {[title |-> <<"M">>,
      readings |-> SelectSeq(ReadingPool, LAMBDA r : r.id \notin gone),
      songs |-> SelectSeq(SongPool, LAMBDA x : x.id \notin gone),
      slideOrder |-> o] :
        gone \in {{}, {"r1"}},
        o \in UNION {[1..n -> PanelOrderEntries] : n \in 0..MaxPanelOrder}}

Entries == {"handleExport", "handleExportWithImages", "handleApiKeySubmit",
            "enhanceWithImages"}

otherVars == <<proseVars, songVars, promptVars, aelfVars, uiVars>>
enhanceState == <<enhancePc, slideIndex, enhancedSlides, requests, lastOutcome, pending,
                  progressLog, success>>

InitPanel ==
    /\ presentation \in PanelPresentations
    /\ pptx = <<>>
    /\ slideNumber = 0
    /\ sortedSlides = <<>>
    /\ cursor = 0
    /\ files = <<>>
    /\ exportPc = "idle"
    /\ startedBy \in Entries
    /\ apiKey \in IF startedBy = "handleExport" THEN {<<>>} ELSE KeyPool
    /\ panelPc = IF startedBy = "enhanceWithImages" THEN "none" ELSE "idle"
    /\ exporting = FALSE
    /\ exportingWithImages = FALSE
    /\ showImageOptions = (startedBy = "handleApiKeySubmit")
    /\ exportProgress = 0
    /\ alerts = <<>>
    /\ resetTimer = FALSE
    /\ EnhanceIdle
    /\ ProseIdle
    /\ SongIdle
    /\ PromptIdle
    /\ AelfIdle
    /\ UiIdle

\* a call of PowerPointService.exportPresentation(p), up to its first statement
CallExportPresentation(p) ==
    /\ presentation' = p
    /\ pptx' = <<>>
    /\ slideNumber' = 1
    /\ sortedSlides' = <<>>
    /\ cursor' = 0
    /\ exportPc' = "ready"
    /\ exportCalls' = exportCalls + 1
    /\ UNCHANGED files

\* onProgress?.({ progress: value }): only a direct caller passes onProgress
Notify(log, value) ==
    IF startedBy = "enhanceWithImages" THEN Append(log, value) ELSE log

\* lines 29-36: enhanceWithImages up to the await of the base export
EnterEnhanceWithImages ==
    /\ progressLog' = Notify(progressLog, 10)
    /\ CallExportPresentation(presentation)
    /\ enhancePc' = "awaitBase"
    /\ UNCHANGED <<slideIndex, enhancedSlides, requests, lastOutcome, pending, success>>

\* lines 70-81 and 89-108, 134-146: iteration i up to the await of its fetch
StartIteration(i, log) ==
    /\ slideIndex' = i
    /\ progressLog' = Notify(log, SlideProgress(i, TotalSlides(presentation)))
    /\ requests' = Append(requests, Request(SlideTitleAt(presentation, i),
                                            SlideTypeAt(presentation, i), apiKey))
    /\ pending' = pending \cup {Len(requests) + 1}
    /\ enhancePc' = AwaitImage

\* lines 37-42
HandleExport ==
    /\ startedBy = "handleExport"
    /\ panelPc = "idle"
    /\ exporting' = TRUE
    /\ CallExportPresentation(presentation)
    /\ panelPc' = "awaitExport"
    /\ UNCHANGED <<startedBy, apiKey, exportingWithImages, showImageOptions,
                   exportProgress, alerts, resetTimer, enhanceState, otherVars>>

\* handleExport without its finally: the flag is cleared at the end of the try
\* block only, and stays when the export has rejected
HandleExportSettlesNoFinally ==
    /\ panelPc = "awaitExport"
    /\ exportPc \in {"done", "rejected"}
    /\ alerts' = IF exportPc = "rejected" THEN Append(alerts, "Erreur lors de l'export PowerPoint") ELSE alerts
    /\ exporting' = (exportPc = "rejected")
    /\ panelPc' = "done"
    /\ UNCHANGED <<startedBy, apiKey, exportingWithImages, showImageOptions,
                   exportProgress, resetTimer, exportVars, enhanceVars, otherVars>>

\* lines 42-48: the export settles, the catch and the finally of handleExport
HandleExportSettles ==
    /\ panelPc = "awaitExport"
    /\ exportPc \in {"done", "rejected"}
    /\ alerts' = IF exportPc = "rejected" THEN Append(alerts, "Erreur lors de l'export PowerPoint") ELSE alerts
    /\ exporting' = FALSE
    /\ panelPc' = "done"
    /\ UNCHANGED <<startedBy, apiKey, exportingWithImages, showImageOptions,
                   exportProgress, resetTimer, exportVars, enhanceVars, otherVars>>

\* lines 52-67: handleExportWithImages up to the await of the base export;
\* shown is the value showImageOptions has when it is called
RunHandleExportWithImages(shown) ==
    IF ValidateApiKey(apiKey)
    THEN /\ exportingWithImages' = TRUE
         /\ exportProgress' = 20
         /\ CallExportPresentation(presentation)
         /\ panelPc' = "awaitBaseExport"
         /\ showImageOptions' = shown
         /\ UNCHANGED alerts
    ELSE /\ alerts' = Append(alerts, "Veuillez entrer une clé API DeepAI valide")
         /\ showImageOptions' = TRUE
         /\ panelPc' = "done"
         /\ UNCHANGED <<exportingWithImages, exportProgress, exportVars, exportCalls>>

HandleExportWithImages ==
    /\ startedBy = "handleExportWithImages"
    /\ panelPc = "idle"
    /\ RunHandleExportWithImages(showImageOptions)
    /\ UNCHANGED <<startedBy, apiKey, exporting, resetTimer, enhanceState, otherVars>>

\* lines 105-113
HandleApiKeySubmit ==
    /\ startedBy = "handleApiKeySubmit"
    /\ panelPc = "idle"
    /\ IF ValidateApiKey(apiKey)
       THEN RunHandleExportWithImages(FALSE)
       ELSE /\ alerts' = Append(alerts,
                              "Clé API invalide. Veuillez vérifier votre clé DeepAI.")
            /\ panelPc' = "done"
            /\ UNCHANGED <<showImageOptions, exportingWithImages, exportProgress,
                           exportVars, exportCalls>>
    /\ UNCHANGED <<startedBy, apiKey, exporting, resetTimer, enhanceState, otherVars>>

\* lines 67-78 and 97-102: the base export of the handler settles; when it
\* resolves the handler calls enhanceWithImages without onProgress
BaseExportSettles ==
    /\ panelPc = "awaitBaseExport"
    /\ exportPc \in {"done", "rejected"}
    /\ IF exportPc = "done"
       THEN /\ exportProgress' = 50
            /\ panelPc' = "awaitEnhance"
            /\ EnterEnhanceWithImages
            /\ UNCHANGED <<alerts, exportingWithImages>>
       ELSE /\ alerts' = Append(alerts, ImagesAlert)
            /\ exportingWithImages' = FALSE
            /\ panelPc' = "done"
            /\ UNCHANGED <<exportProgress, exportVars, enhanceVars>>
    /\ UNCHANGED <<startedBy, apiKey, exporting, showImageOptions, resetTimer, otherVars>>

\* lines 24-36: enhanceWithImages called with a config and an onProgress
CallEnhanceWithImages ==
    /\ startedBy = "enhanceWithImages"
    /\ enhancePc = "idle"
    /\ EnterEnhanceWithImages
    /\ UNCHANGED <<handlerVars, otherVars>>

\* lines 36-41 and 54-57: the base export of enhanceWithImages settles
EnhanceBaseSettles ==
    /\ enhancePc = "awaitBase"
    /\ exportPc \in {"done", "rejected"}
    /\ IF exportPc = "done"
       THEN /\ StartIteration(0, Notify(progressLog, 20))
            /\ UNCHANGED <<enhancedSlides, lastOutcome, success>>
       ELSE /\ success' = "false"
            /\ enhancePc' = "returned"
            /\ UNCHANGED <<slideIndex, enhancedSlides, requests, lastOutcome, pending,
                           progressLog>>
    /\ UNCHANGED <<exportVars, exportCalls, handlerVars, otherVars>>

\* lines 137-158, then 82-86 or 109-113: the fetch settles and the record of
\* the slide is pushed
FetchSettles ==
    /\ enhancePc = "awaitFetch"
    /\ \E outcome \in Outcomes(Len(requests)) :
        /\ lastOutcome' = outcome
        /\ pending' = pending \ {Len(requests)}
        /\ IF GenerateImageForSlide(outcome).throws
           THEN /\ success' = "false"
                /\ enhancePc' = "returned"
                /\ UNCHANGED enhancedSlides
           ELSE /\ enhancedSlides' =
                       Append(enhancedSlides,
                              EnhancedSlide(presentation, slideIndex,
                                            GenerateImageForSlide(outcome).url))
                /\ enhancePc' = "awaitDelay"
                /\ UNCHANGED success
    /\ UNCHANGED <<slideIndex, requests, progressLog, exportCalls, exportVars,
                   handlerVars, otherVars>>

\* line 117, then the next iteration or lines 121-124 and 43-47
DelayElapses ==
    /\ enhancePc = "awaitDelay"
    /\ IF slideIndex + 1 < TotalSlides(presentation)
       THEN /\ StartIteration(slideIndex + 1, progressLog)
            /\ UNCHANGED <<exportVars, exportCalls>>
       ELSE /\ slideIndex' = slideIndex + 1
            /\ progressLog' = Notify(progressLog, 95)
            /\ CallExportPresentation(EnhancedPresentation(presentation, enhancedSlides))
            /\ enhancePc' = "awaitFinal"
            /\ UNCHANGED <<requests, pending>>
    /\ UNCHANGED <<enhancedSlides, lastOutcome, success, handlerVars, otherVars>>

\* lines 47-57: the final export settles and enhanceWithImages returns
EnhanceFinalSettles ==
    /\ enhancePc = "awaitFinal"
    /\ exportPc \in {"done", "rejected"}
    /\ success' = IF exportPc = "done" THEN "true" ELSE "false"
    /\ enhancePc' = "returned"
    /\ UNCHANGED <<slideIndex, enhancedSlides, requests, lastOutcome, pending, progressLog,
                   exportCalls, exportVars, handlerVars, otherVars>>

\* lines 78-84 and 93-102: handleExportWithImages takes the returned value
HandlerResumes ==
    /\ panelPc = "awaitEnhance"
    /\ enhancePc = "returned"
    /\ IF success = "true"
       THEN /\ exportProgress' = 90
            /\ panelPc' = "awaitDelay"
            /\ UNCHANGED <<alerts, exportingWithImages>>
       ELSE /\ alerts' = Append(alerts, ImagesAlert)
            /\ exportingWithImages' = FALSE
            /\ panelPc' = "done"
            /\ UNCHANGED exportProgress
    /\ UNCHANGED <<startedBy, apiKey, exporting, showImageOptions, resetTimer,
                   exportVars, enhanceVars, otherVars>>

\* lines 84-91 and 100-102: after the delay of one second
SuccessDelayElapses ==
    /\ panelPc = "awaitDelay"
    /\ exportProgress' = 100
    /\ resetTimer' = TRUE
    /\ exportingWithImages' = FALSE
    /\ panelPc' = "done"
    /\ UNCHANGED <<startedBy, apiKey, exporting, showImageOptions, alerts,
                   exportVars, enhanceVars, otherVars>>

\* lines 89-91: the timer of two seconds fires
ResetProgressTimer ==
    /\ resetTimer
    /\ exportProgress' = 0
    /\ resetTimer' = FALSE
    /\ UNCHANGED <<startedBy, apiKey, panelPc, exporting, exportingWithImages,
                   showImageOptions, alerts, exportVars, enhanceVars, otherVars>>

\* the steps the event loop schedules: the handlers, the continuations of
\* settled promises, the timers, the settling of writeFile
ScheduledStep ==
    \/ HandleExport
    \/ HandleExportSettles
    \/ HandleExportWithImages
    \/ HandleApiKeySubmit
    \/ BaseExportSettles
    \/ CallEnhanceWithImages
    \/ EnhanceBaseSettles
    \/ DelayElapses
    \/ EnhanceFinalSettles
    \/ HandlerResumes
    \/ SuccessDelayElapses
    \/ ResetProgressTimer
    \/ AddTitleSlide
    \/ WriteFileResolves
    \/ WriteFileRejects

\* the steps that do not wait for the image service
LocalStep == ScheduledStep \/ ProcessSlideItem

NextPanel == LocalStep \/ FetchSettles

SpecPanel == InitPanel /\ [][NextPanel]_vars

-----------------------------------------------------------------------------
(* Claims about the enhanced export.                                       *)

\* the fetch did not give an image: it rejected, the status was not ok, the
\* body was not JSON, or the JSON had no output_url
Failed(outcome) == outcome.kind \in {"transportError", "notOk", "badJson", "noUrl"}

\* C12: a failed image generation gives the empty string for its slide and
\* is not thrown: every fetch that settled has pushed the record of its slide,
\* enhanceWithImages returns false only when an export was rejected, and when
\* it returns true every slide has its record, whichever fetches failed.
C12_FailedImagesAreNotFatal ==
    /\ (enhancePc = "awaitDelay" /\ Failed(lastOutcome))
           => enhancedSlides[Len(enhancedSlides)].imageUrl = <<>>
    /\ Len(enhancedSlides) = Len(requests) - Cardinality(pending)
    /\ success = "false" => exportPc = "rejected"
    /\ success = "true" => Len(enhancedSlides) = TotalSlides(presentation)

\* enhanceWithImages has returned true although the fetch of every one of
\* three slides failed, the last one by a transport error
C12_Witness ==
    /\ success = "true"
    /\ Len(enhancedSlides) = 3
    /\ \A k \in DOMAIN enhancedSlides : enhancedSlides[k].imageUrl = <<>>
    /\ lastOutcome.kind = "transportError"

\* C13: no request is issued to the image service with an API key that
\* validateApiKey refuses, whichever way the enhanced export was started.
C13_NoRequestWithRefusedKey ==
    \A k \in DOMAIN requests : ValidateApiKey(requests[k].apiKey)

NonDecreasing(log) == \A k \in 1..(Len(log) - 1) : log[k] <= log[k + 1]

\* C14: within one call of enhanceWithImages the progress values passed to
\* onProgress never decrease and lie in 0..100; a call that returns true has
\* passed 10, 20, one value in 20..90 for each slide, then 95.
C14_ProgressNeverDecreases ==
    /\ \A k \in DOMAIN progressLog : progressLog[k] \in 0..100
    /\ NonDecreasing(progressLog)
    /\ (startedBy = "enhanceWithImages" /\ success = "true") =>
           /\ Len(progressLog) = TotalSlides(presentation) + 3
           /\ progressLog[1] = 10
           /\ progressLog[2] = 20
           /\ progressLog[Len(progressLog)] = 95
           /\ \A k \in 3..(Len(progressLog) - 1) : progressLog[k] \in 20..90

\* a call with three slides has returned true: onProgress got 10, 20, the
\* three values 20, 43 and 67 of the slides, and 95
C14_Witness ==
    /\ startedBy = "enhanceWithImages"
    /\ success = "true"
    /\ progressLog = <<10, 20, 20, 43, 67, 95>>

\* C15: the image requests of one enhanced export are issued one after
\* another: at most one request is outstanding, and it is the latest one
\* issued, so that every earlier request has settled before it was issued.
C15_OneRequestAtATime ==
    /\ Cardinality(pending) <= 1
    /\ pending \subseteq {Len(requests)}

\* the second request is outstanding, the first one has settled and given
\* the record of the title slide
C15_Witness ==
    /\ Len(requests) = 2
    /\ pending = {2}
    /\ Len(enhancedSlides) = 1
    /\ enhancePc = "awaitFetch"

\* the calls of pptx.writeFile so far: every call of exportPresentation makes
\* one when it comes to its last line
WriteFileCalls == exportCalls - (IF exportPc \in {"ready", "loop"} THEN 1 ELSE 0)

\* C16: an export started by the user from PreviewPanel, simple or enhanced,
\* that has come to its end has called writeFile exactly once.
C16_OneWriteFilePerInvocation ==
    (panelPc = "done" /\ exportCalls > 0) => WriteFileCalls = 1

\* the files written before enhanceWithImages was called: none for a direct
\* call, the file of the base export of handleExportWithImages otherwise
FilesBeforeEnhance == IF startedBy = "enhanceWithImages" THEN 0 ELSE 1

\* C17: a call that reports failure has written no file: a rejected
\* exportPresentation has added none to the files of the calls before it,
\* and when enhanceWithImages returns false the files are those that were
\* there when it was called.
C17_FailureLeavesNoFile ==
    /\ exportPc = "rejected" => Len(files) = exportCalls - 1
    /\ success = "false" => Len(files) = FilesBeforeEnhance

\* what a slide of a written deck holds besides its label and its texts
ImagesOn(slide) ==
    {slide[f] : f \in DOMAIN slide \ {"number", "kind", "id", "title", "body"}}

\* the deck of the file written last
LastDeck == files[Len(files)].slides

\* C18: when the enhanced export has succeeded, every image reference that
\* generateImageForSlide returned is carried by a slide of the deck written
\* by the final export.
C18_WrittenDeckCarriesImages ==
    success = "true" =>
        \A k \in DOMAIN enhancedSlides :
            enhancedSlides[k].imageUrl # <<>> =>
                \E j \in DOMAIN LastDeck : enhancedSlides[k].imageUrl \in ImagesOn(LastDeck[j])

-----------------------------------------------------------------------------------------------------------------------------------------------------
(* The panel machine with the scheduling of the event loop: a handler or a *)
(* continuation runs once the promise it awaits has settled, a timer that  *)
(* is armed fires, and the local writer settles its writeFile.  Nothing is *)
(* assumed of the image service: a fetch may stay without an answer for    *)
(* ever.  The iterations of the synchronous loop of exportPresentation are *)
(* steps of the machine like the others; what is claimed below does not    *)
(* depend on their being fair.                                             *)

SpecPanelLive == InitPanel /\ [][NextPanel]_vars /\ WF_vars(ScheduledStep)

\* C20: every image request is under a timeout: also when the image service
\* never answers, a request that is awaited is eventually given up, as a
\* failed generation, so that the export goes on to the next slide and
\* completes.
C20_AwaitedRequestIsGivenUp ==
    (enhancePc = "awaitFetch") ~> (enhancePc # "awaitFetch")

-----------------------------------------------------------------------------
(* AELFService: cleanText, parseAELFResponse, getMockReadings.             *)

\* String.prototype.replace(/pattern/g, replacement) for a literal pattern
RECURSIVE ReplaceAll(_, _, _)
ReplaceAll(s, pattern, replacement) ==
    IF s = <<>> THEN <<>>
    ELSE IF StartsWith(s, pattern)
    THEN replacement \o ReplaceAll(SubSeq(s, Len(pattern) + 1, Len(s)), pattern, replacement)
    ELSE <<s[1]>> \o ReplaceAll(Tail(s), pattern, replacement)

\* line 106: replace(/<[^>]*>/g, ''); a "<" without a later ">" stays
RECURSIVE StripTags(_)
StripTags(s) ==
    IF s = <<>> THEN <<>>
    ELSE IF s[1] = "<" /\ \E j \in 2..Len(s) : s[j] = ">"
    THEN StripTags(SubSeq(s, Least(2, Len(s), LAMBDA j : s[j] = ">") + 1, Len(s)))
    ELSE <<s[1]>> \o StripTags(Tail(s))

\* line 113: replace(/\s+/g, ' ')
RECURSIVE CollapseSpaces(_)
CollapseSpaces(s) ==
    IF s = <<>> THEN <<>>
    ELSE IF IsSpace(s[1])
    THEN <<" ">> \o CollapseSpaces(SubSeq(s, SpaceRunEnd(s, 1), Len(s)))
    ELSE <<s[1]>> \o CollapseSpaces(Tail(s))

\* lines 107-112: the entities, decoded one after the other in this order
Entities ==
    << [entity |-> <<"&","n","b","s","p",";">>, char |-> <<" ">>],
       [entity |-> <<"&","a","m","p",";">>, char |-> <<"&">>],
       [entity |-> <<"&","l","t",";">>, char |-> <<"<">>],
       [entity |-> <<"&","g","t",";">>, char |-> <<">">>],
       [entity |-> <<"&","q","u","o","t",";">>, char |-> <<"\"">>],
       [entity |-> <<"&","#","3","9",";">>, char |-> <<"'">>] >>

\* lines 107-112 from entity number k on
RECURSIVE DecodeEntities(_, _)
DecodeEntities(s, k) ==
    IF k > Len(Entities) THEN s
    ELSE DecodeEntities(ReplaceAll(s, Entities[k].entity, Entities[k].char), k + 1)

\* cleanText, lines 101-115
CleanText(t) ==
    IF t = <<>> THEN <<>>
    ELSE Trim(CollapseSpaces(DecodeEntities(StripTags(t), 1)))

\* the fields of the AELF response and, for each, the key, the id prefix and
\* the title of the reading made of it (lines 44-85)
ReadingFields ==
    << [field |-> "lecture_1", key |-> "first_reading",
        prefix |-> <<"f","i","r","s","t","-">>,
        title |-> <<"P","r","e","m","i","è","r","e"," ","l","e","c","t","u",
                   "r","e">>],
       [field |-> "psaume", key |-> "psalm",
        prefix |-> <<"p","s","a","l","m","-">>,
        title |-> <<"P","s","a","u","m","e"," ","r","e","s","p","o","n","s",
                   "o","r","i","a","l">>],
       [field |-> "lecture_2", key |-> "second_reading",
        prefix |-> <<"s","e","c","o","n","d","-">>,
        title |-> <<"D","e","u","x","i","è","m","e"," ","l","e","c","t","u",
                   "r","e">>],
       [field |-> "evangile", key |-> "gospel",
        prefix |-> <<"g","o","s","p","e","l","-">>,
        title |-> <<"É","v","a","n","g","i","l","e">>] >>

\* lines 45-51: the reading made of field f by entry e of ReadingFields;
\* reference || '' and text || contenu || ''
ReadingOf(e, f, d) ==
    [id |-> e.prefix \o d, title |-> e.title, reference |-> f.reference,
     text |-> CleanText(IF f.text # <<>> THEN f.text ELSE f.contenu),
     type |-> e.key]

\* the entry of ReadingFields whose key is k
FieldOfKey(k) == CHOOSE e \in Range(ReadingFields) : e.key = k

\* lines 40-85: the readings object built from data
BuiltReadings(data, d) ==
    [k \in {e.key : e \in {x \in Range(ReadingFields) :
                               data[x.field].kind \notin {"absent", "null"}}} |->
        ReadingOf(FieldOfKey(k), data[FieldOfKey(k).field], d)]

\* getMockReadings, lines 117-143
MockReadings(d) ==
    [k \in {"first_reading", "psalm", "gospel"} |->
        [id |-> FieldOfKey(k).prefix \o d,
         title |-> FieldOfKey(k).title,
         reference |->
             CASE k = "first_reading" -> <<"I","s"," ","5","5",","," ","1","0","-","1",
                                "1">>
               [] k = "psalm" -> <<"P","s"," ","6","4">>
               [] k = "gospel" -> <<"M","t"," ","1","3",","," ","1","-","2","3">>,
         text |->
             CASE k = "first_reading" ->
                    <<"A","i","n","s","i"," ","p","a","r","l","e"," ","l","e",
                      " ","S","e","i","g","n","e","u","r"," ",":"," ","«"," ",
                      "L","a"," ","p","l","u","i","e"," ","e","t"," ","l","a",
                      " ","n","e","i","g","e"," ","q","u","i"," ","d","e","s",
                      "c","e","n","d","e","n","t"," ","d","e","s"," ","c","i",
                      "e","u","x"," ","n","'","y"," ","r","e","t","o","u","r",
                      "n","e","n","t"," ","p","a","s"," ","s","a","n","s"," ",
                      "a","v","o","i","r"," ","a","b","r","e","u","v","é"," ",
                      "l","a"," ","t","e","r","r","e",","," ","s","a","n","s",
                      " ","l","'","a","v","o","i","r"," ","f","é","c","o","n",
                      "d","é","e"," ","e","t"," ","l","'","a","v","o","i","r",
                      " ","f","a","i","t"," ","g","e","r","m","e","r",","," ",
                      "d","o","n","n","a","n","t"," ","l","a"," ","s","e","m",
                      "e","n","c","e"," ","a","u"," ","s","e","m","e","u","r",
                      " ","e","t"," ","l","e"," ","p","a","i","n"," ","à"," ",
                      "c","e","l","u","i"," ","q","u","i"," ","d","o","i","t",
                      " ","m","a","n","g","e","r"," ",";"," ","a","i","n","s",
                      "i"," ","m","a"," ","p","a","r","o","l","e",","," ","q",
                      "u","i"," ","s","o","r","t"," ","d","e"," ","m","a"," ",
                      "b","o","u","c","h","e",","," ","n","e"," ","m","e"," ",
                      "r","e","v","i","e","n","d","r","a"," ","p","a","s"," ",
                      "s","a","n","s"," ","r","é","s","u","l","t","a","t",",",
                      " ","s","a","n","s"," ","a","v","o","i","r"," ","f","a",
                      "i","t"," ","c","e"," ","q","u","i"," ","m","e"," ","p",
                      "l","a","î","t",","," ","s","a","n","s"," ","a","v","o",
                      "i","r"," ","a","c","c","o","m","p","l","i"," ","s","a",
                      " ","m","i","s","s","i","o","n","."," ","»">>
               [] k = "psalm" ->
                    <<"T","u"," ","v","i","s","i","t","e","s"," ","l","a"," ",
                      "t","e","r","r","e"," ","e","t"," ","t","u"," ","l","'",
                      "a","b","r","e","u","v","e","s",","," ","t","u"," ","l",
                      "a"," ","c","o","m","b","l","e","s"," ","d","e"," ","r",
                      "i","c","h","e","s","s","e","s"," ",";"," ","l","e","s",
                      " ","r","u","i","s","s","e","a","u","x"," ","d","e"," ",
                      "D","i","e","u"," ","r","e","g","o","r","g","e","n","t",
                      " ","d","'","e","a","u"," ",":"," ","t","u"," ","p","r",
                      "é","p","a","r","e","s"," ","l","e","s"," ","m","o","i",
                      "s","s","o","n","s","."," ","A","i","n","s","i"," ","t",
                      "u"," ","p","r","é","p","a","r","e","s"," ","l","a"," ",
                      "t","e","r","r","e",","," ","t","u"," ","a","r","r","o",
                      "s","e","s"," ","l","e","s"," ","s","i","l","l","o","n",
                      "s"," ",";"," ","t","u"," ","a","p","l","a","n","i","s",
                      " ","l","e"," ","s","o","l",","," ","t","u"," ","l","e",
                      " ","d","é","t","r","e","m","p","e","s"," ","s","o","u",
                      "s"," ","l","e","s"," ","p","l","u","i","e","s",","," ",
                      "t","u"," ","b","é","n","i","s"," ","l","e","s"," ","s",
                      "e","m","a","i","l","l","e","s",".">>
               [] k = "gospel" ->
                    <<"C","e"," ","j","o","u","r","-","l","à",","," ","J","é",
                      "s","u","s"," ","é","t","a","i","t"," ","s","o","r","t",
                      "i"," ","d","e"," ","l","a"," ","m","a","i","s","o","n",
                      ","," ","e","t"," ","i","l"," ","é","t","a","i","t"," ",
                      "a","s","s","i","s"," ","a","u"," ","b","o","r","d"," ",
                      "d","e"," ","l","a"," ","m","e","r","."," ","A","u","p",
                      "r","è","s"," ","d","e"," ","l","u","i"," ","s","e"," ",
                      "r","a","s","s","e","m","b","l","è","r","e","n","t"," ",
                      "d","e","s"," ","f","o","u","l","e","s"," ","s","i"," ",
                      "g","r","a","n","d","e","s"," ","q","u","'","i","l"," ",
                      "m","o","n","t","a"," ","d","a","n","s"," ","u","n","e",
                      " ","b","a","r","q","u","e"," ","o","ù"," ","i","l"," ",
                      "s","'","a","s","s","i","t"," ",";"," ","t","o","u","t",
                      "e"," ","l","a"," ","f","o","u","l","e"," ","s","e"," ",
                      "t","e","n","a","i","t"," ","s","u","r"," ","l","e"," ",
                      "r","i","v","a","g","e","."," ","I","l"," ","l","e","u",
                      "r"," ","d","i","t"," ","b","e","a","u","c","o","u","p",
                      " ","d","e"," ","c","h","o","s","e","s"," ","e","n"," ",
                      "p","a","r","a","b","o","l","e","s"," ",":"," ","«"," ",
                      "V","o","i","c","i"," ","q","u","e"," ","l","e"," ","s",
                      "e","m","e","u","r"," ","s","o","r","t","i","t"," ","p",
                      "o","u","r"," ","s","e","m","e","r","."," ","C","o","m",
                      "m","e"," ","i","l"," ","s","e","m","a","i","t",","," ",
                      "d","e","s"," ","g","r","a","i","n","s"," ","s","o","n",
                      "t"," ","t","o","m","b","é","s"," ","a","u"," ","b","o",
                      "r","d"," ","d","u"," ","c","h","e","m","i","n",","," ",
                      "e","t"," ","l","e","s"," ","o","i","s","e","a","u","x",
                      " ","s","o","n","t"," ","v","e","n","u","s"," ","t","o",
                      "u","t"," ","m","a","n","g","e","r","."," ","»">>,
         type |-> k]]

\* parseAELFResponse without lines 88-91: the readings object is returned
\* also when it is empty
MockIfEmptyLeftOut(readings, d) == readings

\* lines 88-91 and 98: the example readings when no reading was found
MockIfEmpty(readings, d) ==
    IF DOMAIN readings = {} THEN MockReadings(d) ELSE readings

\* lines 42 and 93-96: an exception while the readings are built is caught:
\* data is null, or a text that is not a string is given to cleanText
ParseThrows(response) ==
    \/ response.kind = "jsonNull"
    \/ \E e \in Range(ReadingFields) : response.data[e.field].kind = "objectBadText"

\* parseAELFResponse, lines 39-99, for a response whose body is JSON
ParseAELFResponse(response, d) ==
    IF ParseThrows(response) THEN MockReadings(d)
    ELSE MockIfEmpty(BuiltReadings(response.data, d), d)

\* lines 23-36: what getReadingsForDate resolves to; a rejected fetch and a
\* body that is not JSON are caught at line 32
ReadingsFor(response, d) ==
    IF response.kind \in {"transportError", "notOk", "badJson"} THEN MockReadings(d)
    ELSE ParseAELFResponse(response, d)

\* lines 5, 10-11: BASE_URL, the path and the date with "/" for "-"
UrlFor(d) ==
    <<"h","t","t","p","s",":","/","/","a","p","i",".","a","e","l","f",".","o",
      "r","g">>
        \o <<"/","v","1","/","m","e","s","s","e","s","/">>
        \o ReplaceAll(d, <<"-">>, <<"/">>)

-----------------------------------------------------------------------------
(* The AELF machine: one call of getReadingsForDate.                       *)

Dates ==
    { <<"2","0","2","4","-","1","2","-","2","5">>,
      <<"2","0","2","5","-","0","4","-","2","0">> }

\* what a field of the JSON body can be: left out, null, a string, an object
\* with reference and text, an object with contenu only, an object whose text
\* is a number
FieldPool ==
    { AbsentField,
      [kind |-> "null", reference |-> <<>>, text |-> <<>>, contenu |-> <<>>],
      [kind |-> "string", reference |-> <<>>, text |-> <<>>, contenu |-> <<>>],
      [kind |-> "object", reference |-> <<"I","s"," ","1">>,
       text |-> <<"<","p",">","a"," ","&","a","m","p",";","l","t",";"," ","b",
                 "<","/","p",">">>,
       contenu |-> <<>>],
      [kind |-> "object", reference |-> <<>>, text |-> <<>>,
       contenu |-> <<" ","c","&","n","b","s","p",";","\n"," ","d"," ">>],
      [kind |-> "objectBadText", reference |-> <<>>, text |-> <<>>, contenu |-> <<>>] }

\* what can come of the fetch: it rejects, the status is not ok, the body is
\* not JSON, the body is null, the body is an object
AelfResponses ==
    {[kind |-> k, data |-> NoResponse.data] :
        k \in {"transportError", "notOk", "badJson", "jsonNull"}}
    \cup {[kind |-> "json", data |-> fs] :
            fs \in [{"lecture_1", "psaume", "lecture_2", "evangile"} -> FieldPool]}

InitAelf ==
    /\ date \in Dates
    /\ aelfUrl = <<>>
    /\ aelfResponse = NoResponse
    /\ aelfResult = Pending
    /\ aelfPc = "ready"
    /\ ProseIdle
    /\ SongIdle
    /\ ExportIdle
    /\ PromptIdle
    /\ PanelIdle
    /\ UiIdle

\* lines 8-21: getReadingsForDate up to the await of its fetch
CallGetReadingsForDate ==
    /\ aelfPc = "ready"
    /\ aelfUrl' = UrlFor(date)
    /\ aelfPc' = "awaitFetch"
    /\ UNCHANGED <<date, aelfResponse, aelfResult, proseVars, songVars, exportVars,
                   promptVars, panelVars, uiVars>>

\* lines 15-36: the fetch settles and the promise of getReadingsForDate with it
AelfFetchSettles ==
    /\ aelfPc = "awaitFetch"
    /\ \E response \in AelfResponses :
        /\ aelfResponse' = response
        /\ aelfResult' = [state |-> "resolved", readings |-> ReadingsFor(response, date)]
    /\ aelfPc' = "done"
    /\ UNCHANGED <<date, aelfUrl, proseVars, songVars, exportVars, promptVars, panelVars,
                   uiVars>>

NextAelf == CallGetReadingsForDate \/ AelfFetchSettles

SpecAelf == InitAelf /\ [][NextAelf]_vars

-----------------------------------------------------------------------------
(* Claims about the readings.                                              *)

\* none of the four reading fields is in the body
NoReadingField(response) ==
    \A f \in DOMAIN response.data : response.data[f].kind \in {"absent", "null"}

\* the fetch or the parsing failed, or the body has no reading
Unusable(response) ==
    \/ response.kind \in {"transportError", "notOk", "badJson", "jsonNull"}
    \/ \E f \in DOMAIN response.data : response.data[f].kind = "objectBadText"
    \/ NoReadingField(response)

\* C19: getReadingsForDate never rejects; when the status is not ok, the
\* fetch or the JSON parsing fails, the parsing throws or the body has none of
\* the four reading fields, it resolves to the example readings of the date;
\* the readings it resolves to are never empty.
C19_ReadingsNeverFail ==
    aelfPc = "done" =>
        /\ aelfResult.state = "resolved"
        /\ DOMAIN aelfResult.readings # {}
        /\ Unusable(aelfResponse) => aelfResult.readings = MockReadings(date)

\* the body has none of the four fields (two left out, two null) and the
\* promise has resolved to the three example readings
C19_Witness ==
    /\ aelfPc = "done"
    /\ aelfResponse.kind = "json"
    /\ NoReadingField(aelfResponse)
    /\ aelfResponse.data["psaume"].kind = "null"
    /\ aelfResult.state = "resolved"
    /\ DOMAIN aelfResult.readings = {"first_reading", "psalm", "gospel"}

-----------------------------------------------------------------------------
(* Further claims about the enhanced export and its handler.               *)

\* C21: when enhanceWithImages has returned true, the file written by its
\* final export has the name computed at line 46, the title followed by
\* "_with_images.pptx", which is not the name of the base export.
C21_FinalFileNamedWithImages ==
    success = "true" =>
        /\ files[Len(files)].fileName =
               presentation.title \o <<"_","w","i","t","h","_","i","m","a","g","e","s",".","p","p",
                 "t","x">>
        /\ files[Len(files)].fileName # FileName(presentation)

\* C24: when handleExportWithImages has shown the alert that says the
\* standard export was carried out, a file has been written in that run.
C24_ErrorAlertMeansBaseFileWritten ==
    (\E k \in DOMAIN alerts : alerts[k] = ImagesAlert) => files # <<>>

\* the items exportPresentation makes slides of: the title, then the entries
\* of the sorted order list that resolve
AssemblerItems(p) ==
    <<[id |-> "", type |-> "title"]>>
    \o [k \in 1..Len(WithoutUnresolved(p).slideOrder) |->
           [id |-> SortByOrder(WithoutUnresolved(p).slideOrder)[k].id,
            type |-> SortByOrder(WithoutUnresolved(p).slideOrder)[k].type]]

\* C29: when enhanceWithImages has returned true, its image requests were
\* made one for each item the deck is assembled of and in the same order:
\* the title, then the resolved entries by ascending order key; none was
\* made for an unresolved entry.
C29_RequestsFollowAssembler ==
    success = "true" =>
        /\ Len(requests) = Len(AssemblerItems(presentation))
        /\ [k \in DOMAIN enhancedSlides |->
               [id |-> enhancedSlides[k].id, type |-> enhancedSlides[k].type]]
           = AssemblerItems(presentation)

-----------------------------------------------------------------------------
(* The clean machine: cleanText on one text, then on what it returned.     *)

\* most pieces in an enumerated text
MaxPieces == 3

\* the pieces the enumerated texts are made of: entities, ends of entities,
\* the characters of a tag, a letter, white space
CleanPieces ==
    { <<"&","a","m","p",";">>,
      <<"&","l","t",";">>,
      <<"&","g","t",";">>,
      <<"&","n","b","s","p",";">>,
      <<"a","m","p",";">>,
      <<"l","t",";">>,
      <<"b">>,
      <<"<">>,
      <<">">>,
      <<" ">>,
      <<"\n">> }

RECURSIVE PiecesTexts(_)
PiecesTexts(n) ==
    IF n = 0 THEN {<<>>}
    ELSE PiecesTexts(n - 1)
         \cup {t \o piece : t \in PiecesTexts(n - 1), piece \in CleanPieces}

CleanTexts == PiecesTexts(MaxPieces)

InitClean ==
    /\ cleanInput \in CleanTexts
    /\ cleanOutputs = <<>>
    /\ ProseIdle
    /\ SongIdle
    /\ ExportIdle
    /\ PromptIdle
    /\ PanelIdle
    /\ AelfIdle
    /\ PreviewIdle
    /\ SessionIdle
    /\ SongsPanelIdle

\* a call of cleanText: of the text first, then of what that call returned
CallCleanText ==
    /\ Len(cleanOutputs) < 2
    /\ cleanOutputs' =
           Append(cleanOutputs,
                  CleanText(IF cleanOutputs = <<>> THEN cleanInput ELSE cleanOutputs[1]))
    /\ UNCHANGED <<cleanInput, proseVars, songVars, exportVars, promptVars, panelVars,
                   aelfVars, previewVars, sessionVars, songsPanelVars>>

NextClean == CallCleanText

SpecClean == InitClean /\ [][NextClean]_vars

\* C30: cleanText is idempotent: applied to a text it has cleaned, it
\* returns that text unchanged.
C30_CleanTextIdempotent ==
    Len(cleanOutputs) = 2 => cleanOutputs[2] = cleanOutputs[1]

-----------------------------------------------------------------------------
(* The preview machine: PreviewPanel renders one presentation.             *)

\* lines 134-148: getSlideInfo, the title of the item of slideItem, found
\* with find(); the caller leaves the row out when it returns null
SlideInfoTitle(p, slideItem) ==
    IF slideItem.type = "reading"
    THEN p.readings[FindById(p.readings, slideItem.id)].title
    ELSE p.songs[FindById(p.songs, slideItem.id)].title

\* lines 290-309: the row of the title, then for index = i - 1 of sortedSlides
\* the row with badge index + 2, unless getSlideInfo returns null
PreviewRows(p) ==
    LET sorted == SortByOrder(p.slideOrder)
        shown == SelectSeq([i \in 1..Len(sorted) |-> i],
                           LAMBDA i : Resolves(p, sorted[i]))
    IN  <<[badge |-> 1, title |-> <<"P","a","g","e"," ","d","e"," ","t","i","t","r","e">>]>>
        \o [k \in 1..Len(shown) |->
               [badge |-> shown[k] + 1, title |-> SlideInfoTitle(p, sorted[shown[k]])]]

InitPreview ==
    /\ presentation \in Presentations
    /\ pptx = <<>>
    /\ slideNumber = 0
    /\ sortedSlides = <<>>
    /\ cursor = 0
    /\ files = <<>>
    /\ exportPc = "idle"
    /\ PreviewIdle
    /\ ProseIdle
    /\ SongIdle
    /\ PromptIdle
    /\ PanelIdle
    /\ AelfIdle
    /\ CleanIdle
    /\ SessionIdle
    /\ SongsPanelIdle

\* lines 132, 151 and 282-309: PreviewPanel renders the presentation
RenderPreview ==
    /\ previewRows = <<>>
    /\ previewTotal' = 1 + Len(presentation.slideOrder)
    /\ previewRows' = PreviewRows(presentation)
    /\ UNCHANGED <<proseVars, songVars, exportVars, promptVars, panelVars, aelfVars,
                   cleanVars, sessionVars, songsPanelVars>>

NextPreview == RenderPreview

SpecPreview == InitPreview /\ [][NextPreview]_vars

\* C28: the number of slides the preview displays is the number of rows it
\* lists, and the badges of the rows are 1, 2, ... without a gap, also when
\* the order list has unresolved entries.
C28_TotalMatchesRows ==
    previewRows # <<>> =>
        /\ previewTotal = Len(previewRows)
        /\ \A k \in DOMAIN previewRows : previewRows[k].badge = k

-----------------------------------------------------------------------------
(* The in-progress flags of the handlers.                                  *)

\* what the handlers await settles: every fetch gets its answer or its
\* error, and the loop of exportPresentation comes to its end
AwaitedOperationsSettle ==
    /\ []<>(enhancePc # "awaitFetch")
    /\ []<>(exportPc # "loop")

\* C25: provided the awaited operations settle, a handler that has set its
\* flag, exporting or exportingWithImages, clears it, whether its export
\* succeeds, returns false or throws; and a flag is set only while the
\* handler that set it stands at one of its awaits.
C25_FlagsAreCleared ==
    AwaitedOperationsSettle =>
        /\ [](exporting => panelPc = "awaitExport")
        /\ [](exportingWithImages =>
                 panelPc \in {"awaitBaseExport", "awaitEnhance", "awaitDelay"})
        /\ exporting ~> ~exporting
        /\ exportingWithImages ~> ~exportingWithImages

\* handleExport has come to its end by the rejection of its export, with
\* its alert shown and its flag cleared
C25_Witness ==
    /\ startedBy = "handleExport"
    /\ panelPc = "done"
    /\ exportPc = "rejected"
    /\ Len(alerts) = 1
    /\ ~exporting

-----------------------------------------------------------------------------
(* The session machine: PreviewPanel under the events of its user, with    *)
(* the runs of its handlers side by side.  A call of exportPresentation    *)
(* or of enhanceWithImages is here the promise the handler awaits: what    *)
(* the call does is the export machine and the panel machine; the handler  *)
(* sees that it resolves or rejects, that it returns true or false.        *)

\* most user events in a session
MaxEvents == 5

\* what the user types into the key field: a key validateApiKey refuses, and
\* one it accepts
SessionKeys ==
    { <<"a","b","c","d","e","f","g","h","i","j">>,
      <<"a","b","c","d","e","f","g","h","i","j","k">> }

sessionRest == <<startedBy, panelPc, resetTimer, enhanceVars, exportVars, proseVars,
                 songVars, promptVars, aelfVars, cleanVars, previewVars, songsPanelVars>>

\* the runs without run number i, which has come to its end
Ended(i) == SubSeq(runs, 1, i - 1) \o SubSeq(runs, i + 1, Len(runs))

\* the runs with run number i standing at pc
MovedTo(i, pc) == [runs EXCEPT ![i].pc = pc]

\* lines 31-35: PreviewPanel as it is mounted
InitSession ==
    /\ PanelIdle
    /\ ExportIdle
    /\ SessionIdle
    /\ ProseIdle
    /\ SongIdle
    /\ PromptIdle
    /\ AelfIdle
    /\ CleanIdle
    /\ PreviewIdle
    /\ SongsPanelIdle

\* lines 163-164 and 37-42: a click on "Export Simple", which is disabled
\* while a flag is set, runs handleExport up to its await
ClickExportSimple ==
    /\ events < MaxEvents
    /\ ~(exporting \/ exportingWithImages)
    /\ exporting' = TRUE
    /\ runs' = Append(runs, [handler |-> "handleExport", pc |-> "awaitExport"])
    /\ events' = events + 1
    /\ UNCHANGED <<apiKey, exportingWithImages, showImageOptions, exportProgress, alerts,
                   sessionRest>>

\* lines 172-173: a click on "Export + Images", disabled while a flag is set
ClickExportImages ==
    /\ events < MaxEvents
    /\ ~(exporting \/ exportingWithImages)
    /\ showImageOptions' = TRUE
    /\ events' = events + 1
    /\ UNCHANGED <<apiKey, exporting, exportingWithImages, exportProgress, alerts, runs,
                   sessionRest>>

\* line 230: the user types a key into the field of the form
ChangeApiKey ==
    /\ events < MaxEvents
    /\ showImageOptions
    /\ \E key \in SessionKeys \ {apiKey} : apiKey' = key
    /\ events' = events + 1
    /\ UNCHANGED <<exporting, exportingWithImages, showImageOptions, exportProgress, alerts,
                   runs, sessionRest>>

\* lines 221, 233 and 105-113, then 52-67: the form is submitted, which the
\* browser allows when the required field is not empty; handleApiKeySubmit
\* and, for a valid key, handleExportWithImages up to its first await
SubmitApiKeyForm ==
    /\ events < MaxEvents
    /\ showImageOptions
    /\ apiKey # <<>>
    /\ IF ValidateApiKey(apiKey)
       THEN /\ showImageOptions' = FALSE
            /\ exportingWithImages' = TRUE
            /\ exportProgress' = 20
            /\ runs' = Append(runs, [handler |-> "handleExportWithImages",
                                     pc |-> "awaitBaseExport"])
            /\ UNCHANGED alerts
       ELSE /\ alerts' = Append(alerts,
                              "Clé API invalide. Veuillez vérifier votre clé DeepAI.")
            /\ UNCHANGED <<showImageOptions, exportingWithImages, exportProgress, runs>>
    /\ events' = events + 1
    /\ UNCHANGED <<apiKey, exporting, sessionRest>>

\* line 259: a click on "Annuler"
CancelForm ==
    /\ events < MaxEvents
    /\ showImageOptions
    /\ showImageOptions' = FALSE
    /\ events' = events + 1
    /\ UNCHANGED <<apiKey, exporting, exportingWithImages, exportProgress, alerts, runs,
                   sessionRest>>

\* lines 42-48: the export a run of handleExport awaits settles
SimpleExportSettles ==
    \E i \in DOMAIN runs, rejected \in BOOLEAN :
        /\ runs[i].pc = "awaitExport"
        /\ alerts' = IF rejected THEN Append(alerts, "Erreur lors de l'export PowerPoint")
                     ELSE alerts
        /\ exporting' = FALSE
        /\ runs' = Ended(i)
        /\ UNCHANGED <<apiKey, exportingWithImages, showImageOptions, exportProgress, events,
                       sessionRest>>

\* lines 67-78 and 97-102: the base export a run of handleExportWithImages
\* awaits settles; lines 78-84 and 93-102: its enhanceWithImages returns
EnhancedRunResumes ==
    \E i \in DOMAIN runs, ok \in BOOLEAN :
        /\ runs[i].pc \in {"awaitBaseExport", "awaitEnhance"}
        /\ IF ok
           THEN /\ exportProgress' = IF runs[i].pc = "awaitBaseExport" THEN 50 ELSE 90
                /\ runs' = MovedTo(i, IF runs[i].pc = "awaitBaseExport" THEN "awaitEnhance"
                                      ELSE "awaitDelay")
                /\ UNCHANGED <<alerts, exportingWithImages>>
           ELSE /\ alerts' = Append(alerts, ImagesAlert)
                /\ exportingWithImages' = FALSE
                /\ runs' = Ended(i)
                /\ UNCHANGED exportProgress
        /\ UNCHANGED <<apiKey, exporting, showImageOptions, events, sessionRest>>

\* lines 84-91 and 100-102: after the delay of one second the run shows 100,
\* arms the timer of two seconds and clears its flag
SuccessShown ==
    \E i \in DOMAIN runs :
        /\ runs[i].pc = "awaitDelay"
        /\ exportProgress' = 100
        /\ exportingWithImages' = FALSE
        /\ runs' = MovedTo(i, "timer")
        /\ UNCHANGED <<apiKey, exporting, showImageOptions, alerts, events, sessionRest>>

\* lines 89-91: the timer of two seconds of a run fires
ProgressResetFires ==
    \E i \in DOMAIN runs :
        /\ runs[i].pc = "timer"
        /\ exportProgress' = 0
        /\ runs' = Ended(i)
        /\ UNCHANGED <<apiKey, exporting, exportingWithImages, showImageOptions, alerts,
                       events, sessionRest>>

NextSession ==
    \/ ClickExportSimple
    \/ ClickExportImages
    \/ ChangeApiKey
    \/ SubmitApiKeyForm
    \/ CancelForm
    \/ SimpleExportSettles
    \/ EnhancedRunResumes
    \/ SuccessShown
    \/ ProgressResetFires

SpecSession == InitSession /\ [][NextSession]_vars

\* the runs that stand at an await of their export
InFlight == {i \in DOMAIN runs : runs[i].pc # "timer"}

\* C22: whatever the user does, at most one export, simple or enhanced, is
\* in flight: none is started while exporting or exportingWithImages is set.
C22_OneExportInFlight ==
    Cardinality(InFlight) <= 1

\* C23: while exportingWithImages is set the progress shown never goes down;
\* the reset to 0 armed by an earlier export does not fire during a later one.
C23_ProgressNeverDropsWhileExporting ==
    [][(exportingWithImages /\ exportingWithImages') => exportProgress' >= exportProgress]_vars

-----------------------------------------------------------------------------
(* The songs panel machine: SongsPanel under the events of its user.  The  *)
(* parent of the panel owns the songs: it adds a song with an id of its    *)
(* own for onAddSong, replaces the fields of a song for onUpdateSong and   *)
(* takes a song off the list for onDeleteSong.  onReorderSong changes the  *)
(* order keys only and is left out.                                        *)

\* most songs the parent creates in a session
MaxSongs == 2

\* the id the parent gives to the n-th song it creates
NewId(n) == <<"s1", "s2", "s3", "s4">>[n]

\* the Song with the fields of data and the id
SongOf(id, data) ==
    [id |-> id, title |-> data.title, lyrics |-> data.lyrics, author |-> data.author,
     melody |-> data.melody, category |-> data.category, order |-> data.order]

\* what the parent makes of the songs for onAddSong(data)
OnAddSong(songs, id, data) == Append(songs, SongOf(id, data))

\* what the parent makes of the songs for onUpdateSong(id, data)
OnUpdateSong(songs, id, data) ==
    [i \in DOMAIN songs |-> IF songs[i].id = id THEN SongOf(id, data) ELSE songs[i]]

\* what the parent makes of the songs for onDeleteSong(id)
OnDeleteSong(songs, id) == SelectSeq(songs, LAMBDA s : s.id # id)

\* a song of the library
LibraryTemplate ==
    [title |-> <<"G">>, lyrics |-> <<"l">>, author |-> <<"X">>, melody |-> <<>>,
     category |-> "gloria"]

\* what the user types into the fields of the form
FormValues ==
    [title |-> {<<>>, <<"A">>, <<"B">>}, lyrics |-> {<<>>, <<"l">>}]

\* the event of handler with the editingId it read and the callbacks it called
Event(handler, calls) == [handler |-> handler, editing |-> editingId, calls |-> calls]

songsRest == <<proseVars, songVars, exportVars, promptVars, panelVars, aelfVars, cleanVars,
               previewVars, sessionVars>>

InitSongsPanel ==
    /\ SongsPanelIdle
    /\ ProseIdle
    /\ SongIdle
    /\ ExportIdle
    /\ PromptIdle
    /\ PanelIdle
    /\ AelfIdle
    /\ CleanIdle
    /\ PreviewIdle
    /\ SessionIdle

\* line 117: a click on "Bibliothèque"; line 138: the library is closed
ToggleLibrary ==
    /\ showLibrary' = ~showLibrary
    /\ lastEvent' = Event("setShowLibrary", <<>>)
    /\ UNCHANGED <<songsProp, showAddForm, editingId, formData, nextId, songsRest>>

\* lines 63-73 and 159: a song of the library is added
HandleAddFromLibrary ==
    /\ showLibrary
    /\ nextId < MaxSongs
    /\ songsProp' = OnAddSong(songsProp, NewId(nextId + 1),
                              [title |-> LibraryTemplate.title,
                               lyrics |-> LibraryTemplate.lyrics,
                               author |-> LibraryTemplate.author,
                               melody |-> LibraryTemplate.melody,
                               category |-> LibraryTemplate.category, order |-> 0])
    /\ nextId' = nextId + 1
    /\ showLibrary' = FALSE
    /\ lastEvent' = Event("handleAddFromLibrary", <<[name |-> "onAddSong", id |-> "null"]>>)
    /\ UNCHANGED <<showAddForm, editingId, formData, songsRest>>

\* line 124: a click on "Nouveau chant"
ClickNewSong ==
    /\ showAddForm' = TRUE
    /\ lastEvent' = Event("setShowAddForm", <<>>)
    /\ UNCHANGED <<songsProp, showLibrary, editingId, formData, nextId, songsRest>>

\* lines 190 and 248: the user types into the title or the lyrics field
ChangeFormData ==
    /\ showAddForm
    /\ \E f \in DOMAIN FormValues : \E v \in FormValues[f] \ {formData[f]} :
           formData' = [formData EXCEPT ![f] = v]
    /\ lastEvent' = Event("setFormData", <<>>)
    /\ UNCHANGED <<songsProp, showAddForm, showLibrary, editingId, nextId, songsRest>>

\* lines 38-61, 180, 192 and 252: the form is submitted, which the browser
\* allows when the two required fields are not empty
HandleSubmit ==
    /\ showAddForm
    /\ formData.title # <<>> /\ formData.lyrics # <<>>
    /\ IF editingId # "null"
       THEN /\ songsProp' = OnUpdateSong(songsProp, editingId, formData)
            /\ lastEvent' = Event("handleSubmit",
                                  <<[name |-> "onUpdateSong", id |-> editingId]>>)
            /\ UNCHANGED nextId
       ELSE /\ nextId < MaxSongs
            /\ songsProp' = OnAddSong(songsProp, NewId(nextId + 1), formData)
            /\ lastEvent' = Event("handleSubmit", <<[name |-> "onAddSong", id |-> "null"]>>)
            /\ nextId' = nextId + 1
    /\ editingId' = "null"
    /\ formData' = DefaultFormData
    /\ showAddForm' = FALSE
    /\ UNCHANGED <<showLibrary, songsRest>>

\* lines 75-86 and 320: a click on the edit button of a song
HandleEdit ==
    /\ \E i \in DOMAIN songsProp :
           /\ formData' = [title |-> songsProp[i].title, lyrics |-> songsProp[i].lyrics,
                           author |-> songsProp[i].author, melody |-> songsProp[i].melody,
                           category |-> songsProp[i].category, order |-> songsProp[i].order]
           /\ editingId' = songsProp[i].id
    /\ showAddForm' = TRUE
    /\ lastEvent' = Event("handleEdit", <<>>)
    /\ UNCHANGED <<songsProp, showLibrary, nextId, songsRest>>

\* handleCancel without its setEditingId(null)
HandleCancelKeepsEditing ==
    /\ showAddForm
    /\ showAddForm' = FALSE
    /\ formData' = DefaultFormData
    /\ lastEvent' = Event("handleCancel", <<>>)
    /\ UNCHANGED <<editingId, songsProp, showLibrary, nextId, songsRest>>

\* lines 88-99 and 265: a click on "Annuler"
HandleCancel ==
    /\ showAddForm
    /\ showAddForm' = FALSE
    /\ editingId' = "null"
    /\ formData' = DefaultFormData
    /\ lastEvent' = Event("handleCancel", <<>>)
    /\ UNCHANGED <<songsProp, showLibrary, nextId, songsRest>>

\* line 327: a click on the delete button of a song
ClickDelete ==
    /\ \E i \in DOMAIN songsProp :
           /\ songsProp' = OnDeleteSong(songsProp, songsProp[i].id)
           /\ lastEvent' = Event("onDeleteSong",
                                 <<[name |-> "onDeleteSong", id |-> songsProp[i].id]>>)
    /\ UNCHANGED <<showAddForm, showLibrary, editingId, formData, nextId, songsRest>>

NextSongsPanel ==
    \/ ToggleLibrary
    \/ HandleAddFromLibrary
    \/ ClickNewSong
    \/ ChangeFormData
    \/ HandleSubmit
    \/ HandleEdit
    \/ HandleCancel
    \/ ClickDelete

SpecSongsPanel == InitSongsPanel /\ [][NextSongsPanel]_vars

\* C26: onUpdateSong is called only with the id of a song that is on the
\* songs list: no edit stays pending on a song that has been deleted.
C26_UpdateOnlyPresentSongs ==
    \A k \in DOMAIN lastEvent.calls :
        lastEvent.calls[k].name = "onUpdateSong" =>
            \E i \in DOMAIN songsProp : songsProp[i].id = lastEvent.calls[k].id

\* C27: editingId is set only while the form is shown; after a submit or a
\* cancel editingId is null, the form is hidden and formData has its
\* defaults; a submit calls one callback, onUpdateSong with the editingId
\* it read when that was set, onAddSong otherwise.
C27_EditingOnlyInForm ==
    /\ editingId # "null" => showAddForm
    /\ lastEvent.handler \in {"handleSubmit", "handleCancel"} =>
           editingId = "null" /\ ~showAddForm /\ formData = DefaultFormData
    /\ lastEvent.handler = "handleSubmit" =>
           /\ Len(lastEvent.calls) = 1
           /\ lastEvent.editing # "null" =>
                  lastEvent.calls[1] = [name |-> "onUpdateSong", id |-> lastEvent.editing]
           /\ lastEvent.editing = "null" => lastEvent.calls[1].name = "onAddSong"

\* a song that was being edited has been updated by the submit of the form
C27_Witness ==
    /\ lastEvent.handler = "handleSubmit"
    /\ lastEvent.editing = "s1"
    /\ lastEvent.calls = <<[name |-> "onUpdateSong", id |-> "s1"]>>
    /\ editingId = "null"
    /\ ~showAddForm
    /\ formData = DefaultFormData

====
